---- MODULE Spec2Model ----
(***************************************************************************)
(* Local-remote reconciliation of template bundles: the pull command       *)
(* (src/commands/pull.ts, second revision with conflict detection), the    *)
(* bulk sync command (src/commands/sync.ts) and the hash store             *)
(* (src/services/hash.ts).  One command runs at a time; the user may edit  *)
(* tracked files and the remote may publish new versions at any moment.    *)
(***************************************************************************)
EXTENDS Integers, Sequences, FiniteSets, TLC

\* ------------------------------------------------------------ bounds ----
NumArtifacts == 2
MaxVersion   == 2
MaxEdits     == 1
MaxFaults    == 1
MaxRuns      == 2

Artifacts == 1..NumArtifacts

\* ------------------------------------------------- program constants ----
\* pull.ts:96 / sync.ts:14
TRACKED_FILES == <<"template.html", "styles.css", "config.json">>

Tracked == {TRACKED_FILES[i] : i \in 1..Len(TRACKED_FILES)}

\* A path that does not exist on disk (Bun.file(p).exists() is false).
NoFile == "<ENOENT>"

\* What an editor outside the tool leaves in a tracked file.
UserContents == {"edited"}

\* ------------------------------------------------------ Remote Store ----
\* The markup the Remote Store's own editor saves as version v.
TemplateHtml(v) == "html-v" \o ToString(v)

\* Its stylesheet; even-numbered versions carry none (template.css ?? '').
TemplateCss(v) == IF v % 2 = 0 THEN "" ELSE "css-v" \o ToString(v)

\* What getTemplate returns for version v as saved by the remote editor.
RemoteVersion(v) == [ver |-> v, html |-> TemplateHtml(v), css |-> TemplateCss(v)]

\* JSON.stringify of the local config assembled from the template's
\* metadata and its creative asset group.
TemplateConfigJson(t) == "cfg-v" \o ToString(t.ver)

\* What pull writes into tracked file f from the fetched template t.
RemoteContent(f, t) ==
    IF f = "template.html" THEN t.html
    ELSE IF f = "styles.css" THEN t.css
    ELSE TemplateConfigJson(t)

\* The comparison of generateDiff answering "different" for every pair.
hasChangesAlways(oldText, newText) == TRUE

\* generateDiff(oldText, newText).hasChanges: false on identical text only.
hasChanges(oldText, newText) == oldText # newText

\* -------------------------------------------------------- hash.ts -------
\* hasher.digest('hex') of the file's bytes: injective, never empty.
Hash(c) == "sha256(" \o c \o ")"

\* Variant: the digest is taken of the path string, not of the file's bytes.
computeFileHashOfPath(c) == IF c = NoFile THEN "" ELSE Hash("template.html")

\* computeFileHash on a readable path: '' when the file does not exist.
computeFileHash(c) == IF c = NoFile THEN "" ELSE Hash(c)

EmptyMap == [f \in {} |-> ""]

\* .pull-hashes.json when it is absent.
NoHashFile == [exists |-> FALSE, parsable |-> TRUE, map |-> EmptyMap]

\* Variant: an unparsable file is not caught; its stale map is returned.
loadPullHashesNoCatch(h) == IF ~h.exists THEN EmptyMap ELSE h.map

\* loadPullHashes: {} when the file is absent or fails to parse.
loadPullHashes(h) ==
    IF ~h.exists THEN EmptyMap
    ELSE IF ~h.parsable THEN EmptyMap
    ELSE h.map

\* savePullHashes: the file is replaced by JSON.stringify(hashes).
savePullHashes(hashes) == [exists |-> TRUE, parsable |-> TRUE, map |-> hashes]

\* Variant: every kept entry records the fingerprint of template.html.
CurrentHashesFirstFileOnly(dir) ==
    LET kept == {f \in Tracked : computeFileHash(dir[f]) # ""}
    IN  [f \in kept |-> computeFileHash(dir["template.html"])]

\* Variant: the new entries are merged into the entries already stored for
\* the files that are gone (no filter on the empty fingerprint).
CurrentHashesKeepsAbsent(dir) ==
    [f \in Tracked |-> IF dir[f] = NoFile THEN Hash("<stale>") ELSE computeFileHash(dir[f])]

\* saveCurrentHashes, the loop: only truthy (non-empty) hashes are kept.
CurrentHashes(dir) ==
    LET kept == {f \in Tracked : computeFileHash(dir[f]) # ""}
    IN  [f \in kept |-> computeFileHash(dir[f])]

\* A read of an existing file fails (file.arrayBuffer() rejects) when the
\* path is in `bad`; a missing file is reported by exists() before any read.
ReadFails(dir, f, bad) == dir[f] # NoFile /\ f \in bad

\* savedHashes[fileName], undefined when the map has no such key.
SavedHash(saved, f) == IF f \in DOMAIN saved THEN saved[f] ELSE ""

\* ------------------------------------------------- pull.ts: detect ------
\* estimateLinesChanged: max(1, ceil(lines * 0.1)); the modelled contents
\* have at most ten lines.
estimateLinesChanged(c) == 1

\* Variant: a changed file is put in front of the report.
RECURSIVE detectLoopPrepends(_, _, _, _, _)
detectLoopPrepends(i, saved, dir, bad, changes) ==
    IF i > Len(TRACKED_FILES) THEN [threw |-> FALSE, changes |-> changes]
    ELSE LET f == TRACKED_FILES[i] IN
         IF SavedHash(saved, f) = "" THEN detectLoopPrepends(i + 1, saved, dir, bad, changes)
         ELSE IF ReadFails(dir, f, bad) THEN [threw |-> TRUE, changes |-> <<>>]
         ELSE IF computeFileHash(dir[f]) = ""
         THEN detectLoopPrepends(i + 1, saved, dir, bad,
                                 <<[file |-> f, linesChanged |-> 0]>> \o changes)
         ELSE IF computeFileHash(dir[f]) # saved[f]
         THEN detectLoopPrepends(i + 1, saved, dir, bad,
                                 <<[file |-> f, linesChanged |-> 1]>> \o changes)
         ELSE detectLoopPrepends(i + 1, saved, dir, bad, changes)

\* The loop of detectLocalChanges over TRACKED_FILES.
RECURSIVE detectLoop(_, _, _, _, _)
detectLoop(i, saved, dir, bad, changes) ==
    IF i > Len(TRACKED_FILES) THEN [threw |-> FALSE, changes |-> changes]
    ELSE LET f == TRACKED_FILES[i] IN
         IF SavedHash(saved, f) = "" THEN detectLoop(i + 1, saved, dir, bad, changes)
         ELSE IF ReadFails(dir, f, bad) THEN [threw |-> TRUE, changes |-> <<>>]
         ELSE LET currentHash == computeFileHash(dir[f]) IN
              IF currentHash = ""
              THEN detectLoop(i + 1, saved, dir, bad,
                              Append(changes, [file |-> f, linesChanged |-> 0]))
              ELSE IF currentHash # saved[f]
              THEN detectLoop(i + 1, saved, dir, bad,
                              Append(changes, [file |-> f,
                                               linesChanged |-> estimateLinesChanged(dir[f])]))
              ELSE detectLoop(i + 1, saved, dir, bad, changes)

\* Variant: no first-pull guard, and a file without a baseline entry is
\* compared against the empty fingerprint.
RECURSIVE detectLoopNoGuard(_, _, _, _, _)
detectLoopNoGuard(i, saved, dir, bad, changes) ==
    IF i > Len(TRACKED_FILES) THEN [threw |-> FALSE, changes |-> changes]
    ELSE LET f == TRACKED_FILES[i] IN
         IF ReadFails(dir, f, bad) THEN [threw |-> TRUE, changes |-> <<>>]
         ELSE IF computeFileHash(dir[f]) # SavedHash(saved, f)
         THEN detectLoopNoGuard(i + 1, saved, dir, bad,
                                Append(changes, [file |-> f, linesChanged |-> 1]))
         ELSE detectLoopNoGuard(i + 1, saved, dir, bad, changes)

detectLocalChangesNoGuard(h, dir, bad) ==
    detectLoopNoGuard(1, loadPullHashes(h), dir, bad, <<>>)

\* detectLocalChanges(templateDir): the list of changed files, or a throw.
detectLocalChanges(h, dir, bad) ==
    LET savedHashes == loadPullHashes(h) IN
    IF Cardinality(DOMAIN savedHashes) = 0
    THEN [threw |-> FALSE, changes |-> <<>>]
    ELSE detectLoop(1, savedHashes, dir, bad, <<>>)

\* Variant: a tracked file that is missing is not counted as a change.
RECURSIVE hasChangesLoopIgnoresDeleted(_, _, _, _)
hasChangesLoopIgnoresDeleted(i, saved, dir, bad) ==
    IF i > Len(TRACKED_FILES) THEN [threw |-> FALSE, result |-> FALSE]
    ELSE LET f == TRACKED_FILES[i] IN
         IF SavedHash(saved, f) = "" THEN hasChangesLoopIgnoresDeleted(i + 1, saved, dir, bad)
         ELSE IF ReadFails(dir, f, bad) THEN [threw |-> TRUE, result |-> FALSE]
         ELSE IF computeFileHash(dir[f]) # "" /\ computeFileHash(dir[f]) # saved[f]
         THEN [threw |-> FALSE, result |-> TRUE]
         ELSE hasChangesLoopIgnoresDeleted(i + 1, saved, dir, bad)

\* ------------------------------------------------- sync.ts: detect ------
RECURSIVE hasChangesLoop(_, _, _, _)
hasChangesLoop(i, saved, dir, bad) ==
    IF i > Len(TRACKED_FILES) THEN [threw |-> FALSE, result |-> FALSE]
    ELSE LET f == TRACKED_FILES[i] IN
         IF SavedHash(saved, f) = "" THEN hasChangesLoop(i + 1, saved, dir, bad)
         ELSE IF ReadFails(dir, f, bad) THEN [threw |-> TRUE, result |-> FALSE]
         ELSE IF computeFileHash(dir[f]) # saved[f]
         THEN [threw |-> FALSE, result |-> TRUE]
         ELSE hasChangesLoop(i + 1, saved, dir, bad)

\* hasLocalChanges(templateDir)
hasLocalChanges(h, dir, bad) ==
    LET savedHashes == loadPullHashes(h) IN
    IF Cardinality(DOMAIN savedHashes) = 0
    THEN [threw |-> FALSE, result |-> FALSE]
    ELSE hasChangesLoop(1, savedHashes, dir, bad)

\* Variant: the dry-run option is not looked at.
isDryRunIgnored(dryRun) == FALSE

\* const isDryRun = args.dryRun === true
isDryRun(dryRun) == dryRun = TRUE

\* Variant: the existence test looks at a path that is never written.
templateExistsWrongPath(dir) == FALSE

\* templateExistsLocally: only template.html is looked at.
templateExistsLocally(dir) == dir["template.html"] # NoFile

\* Variant: only template.html is copied into the snapshot.
backupLocalFilesHtmlOnly(dir, upto) ==
    LET copied == {f \in {"template.html"} : upto > 1 /\ dir[f] # NoFile}
    IN  [f \in copied |-> dir[f]]

\* ------------------------------------------------- pull.ts: backup ------
\* backupLocalFiles: the files copied when the copy loop stops before the
\* tracked file number `upto` (all of them when upto > Len(TRACKED_FILES)).
backupLocalFiles(dir, upto) ==
    LET copied == {TRACKED_FILES[i] : i \in {j \in 1..Len(TRACKED_FILES) :
                                             j < upto /\ dir[TRACKED_FILES[j]] # NoFile}}
    IN  [f \in copied |-> dir[f]]

\* Variant: `skip` falls through to the write step.
AfterDecisionSkipFallsThrough(action) ==
    IF action \in {"cancel", "isCancel"} THEN "p_cancelled"
    ELSE IF action = "backup" THEN "p_backup"
    ELSE "p_write_html"

\* The prompt of pullCommand: where each answer leads.
AfterDecision(action) ==
    IF action \in {"cancel", "isCancel"} THEN "p_cancelled"
    ELSE IF action = "skip" THEN "p_skipped"
    ELSE IF action = "backup" THEN "p_backup"
    ELSE "p_write_html"

Decisions == {"overwrite", "backup", "skip", "cancel", "isCancel"}

\* ------------------------------------------------------------ state ------
VARIABLES
    files,      \* files[a][f]: content of tracked file f of artifact a, or NoFile
    hashfile,   \* hashfile[a]: the artifact's .pull-hashes.json
    backups,    \* backups[a]: the snapshots under the artifact's .backup/
    config,     \* project config.json: the template ids of the network, in order
    remote,     \* remote[a]: the template the Remote Store currently serves
    pc,         \* position of the running command
    art,        \* artifact the command is working on
    force,      \* pull --force
    dry,        \* sync --dry-run
    tmpl,       \* template returned by getTemplate in this command
    yes,        \* push --yes
    local,      \* push: the markup and style read from disk
    templates,  \* sync: list returned by getTemplatesForNetwork
    idx,        \* sync: index of the template being processed
    summary,    \* sync: BulkSummary
    pre,        \* tracked files and hash files as they would be without the
                \* running command's own writes; backups and project config
                \* as they were when it started
    obs,        \* what the running command has done so far
    everHeld,   \* everHeld[a][f]: every content the file has held
    prev,       \* how the last sync run ended, if nothing changed outside the
                \* tool since it started
    halfPulled, \* artifacts whose pull by a sync run failed or was killed
    edits, faults, runs,
    diff,       \* a call of generateDiff: its position, arguments and locals
    snap,       \* backups under a real-time clock: directory, backup root, clock
    par,        \* two pull processes running at the same time
    fh          \* saveCurrentHashes calling computeFileHash file by file

world   == <<files, hashfile, backups, config, remote>>
cmdvars == <<pc, art, force, dry, tmpl, yes, local, templates, idx, summary>>
budgets == <<edits, faults, runs>>
aside   == <<diff, snap, par, fh>>
vars    == <<files, hashfile, backups, config, remote, pc, art, force, dry, tmpl,
             yes, local, templates, idx, summary, pre, obs, everHeld, prev, halfPulled,
             edits, faults, runs, diff, snap, par, fh>>

PullSteps == {"p_fetch", "p_detect", "p_await", "p_backup", "p_write_html",
              "p_write_css", "p_fetch_cag", "p_write_config", "p_save_hashes",
              "p_save_config"}
SyncPullSteps == {"s_fetch", "s_write_html", "s_write_css", "s_fetch_cag",
                  "s_write_config", "s_save_hashes", "s_save_config"}
SyncSteps == {"s_load", "s_next"} \cup SyncPullSteps
PullEnded == {"p_ok", "p_err", "p_cancelled", "p_skipped"}
SyncEnded == {"s_done", "s_abort", "s_empty"}
PushSteps == {"u_read", "u_fetch", "u_confirm", "u_publish"}
PushEnded == {"u_ok", "u_err", "u_cancelled", "u_nothing"}
Ended     == PullEnded \cup SyncEnded \cup PushEnded \cup {"idle", "killed"}

\* Where the model lets the user touch the working tree: between commands,
\* while the prompt is open, and between the last write and the stamp.
EditPoints == Ended \cup {"p_await", "p_save_hashes", "s_save_hashes"}

NoOutcome == [a \in Artifacts |-> "none"]

FreshObs ==
    [kind        |-> "none",  \* "pull", "sync" or "push"
     fetchIssued |-> FALSE,   \* a remote fetch was sent
     fetchFailed |-> FALSE,   \* a remote fetch failed
     gotTemplate |-> {},      \* artifacts whose getTemplate succeeded
     gotCag      |-> {},      \* artifacts whose getCreativeAssetGroup succeeded
     conflict    |-> FALSE,   \* detect reported a changed file
     asked       |-> FALSE,   \* a decision was requested
     decision    |-> "none",  \* the decision supplied
     snapshots   |-> 0,       \* backup snapshots created
     diffShown   |-> FALSE,   \* push: a diff was displayed
     published   |-> FALSE,   \* push: updateTemplate was called
     stamped     |-> {},      \* artifacts whose hash file was written
     fresh       |-> {},      \* ... and not touched outside the tool since
     warned      |-> {},      \* the log.warn messages emitted
     corrupt     |-> {},      \* artifacts whose hash file did not parse at the start
     wrote       |-> {},      \* <<a, f>> written by the command
     drifted     |-> {},      \* sync: artifacts that differed from their baseline when visited
     resumed     |-> {},      \* sync: artifacts an earlier run left half-pulled
     afterClean  |-> FALSE,   \* sync: started right after a run without failures
     afterDry    |-> FALSE,   \* sync: that run was a dry run
     outcome     |-> NoOutcome,
     edited      |-> FALSE,   \* the working tree or the remote changed outside the tool
     clean       |-> TRUE]    \* no step of the command failed

\* The artifacts whose .pull-hashes.json exists but does not parse.
Unparsable == {a \in Artifacts : hashfile[a].exists /\ ~hashfile[a].parsable}

NoPrev == [done |-> FALSE, dry |-> FALSE, failed |-> 0]

\* Nothing is going on in the parts of the state the commands do not use.
NoDiff == [pc |-> "none"]
NoSnap == [pc |-> "none"]
NoPar  == [pc |-> "none"]
NoCall == [pc |-> "none"]

\* No command has run yet: empty template directories, no hash files, no
\* backups, a project config listing some of the artifacts.
AtRest ==
    /\ files = [a \in Artifacts |-> [f \in Tracked |-> NoFile]]
    /\ hashfile = [a \in Artifacts |-> NoHashFile]
    /\ backups = [a \in Artifacts |-> <<>>]
    /\ config \in {[i \in 1..k |-> i] : k \in 0..NumArtifacts}
    /\ remote = [a \in Artifacts |-> RemoteVersion(1)]
    /\ pc = "idle"
    /\ art = 1
    /\ force = FALSE
    /\ dry = FALSE
    /\ tmpl = RemoteVersion(1)
    /\ yes = FALSE
    /\ local = [html |-> "", css |-> ""]
    /\ templates = <<>>
    /\ idx = 1
    /\ summary = [pulled |-> 0, skipped |-> 0, failed |-> 0, modified |-> 0]
    /\ pre = [files |-> files, hashfile |-> hashfile, backups |-> backups,
              config |-> config]
    /\ obs = FreshObs
    /\ everHeld = [a \in Artifacts |-> [f \in Tracked |-> {}]]
    /\ prev = NoPrev
    /\ halfPulled = {}
    /\ edits = 0
    /\ faults = 0
    /\ runs = 0

Init ==
    /\ diff = NoDiff /\ snap = NoSnap /\ par = NoPar /\ fh = NoCall
    /\ AtRest

\* A step fails: bounded number of faults per behaviour.
Fault == faults < MaxFaults /\ faults' = faults + 1

\* Bun.write(path, contents) by the running command.
ToolWrite(a, f, c) ==
    /\ files' = [files EXCEPT ![a][f] = c]
    /\ everHeld' = [everHeld EXCEPT ![a][f] = @ \cup {c}]

\* ------------------------------------------------------ environment -----
\* The user saves or deletes a tracked file in an editor.
UserEdit(a, f, c) ==
    /\ edits < MaxEdits
    /\ pc \in EditPoints
    /\ files[a][f] # c
    /\ edits' = edits + 1
    /\ files' = [files EXCEPT ![a][f] = c]
    /\ everHeld' = [everHeld EXCEPT ![a][f] = IF c = NoFile THEN @ ELSE @ \cup {c}]
    /\ pre' = [pre EXCEPT !.files[a][f] = c]
    /\ prev' = NoPrev
    /\ halfPulled' = halfPulled \ {a}
    /\ obs' = [obs EXCEPT !.edited = TRUE, !.afterClean = FALSE, !.resumed = @ \ {a},
                        !.fresh = @ \ {a}]
    /\ UNCHANGED <<aside, hashfile, backups, config, remote, cmdvars, faults, runs>>

\* .pull-hashes.json is damaged outside the tool: it no longer parses.
DamageHashFile(a) ==
    /\ edits < MaxEdits
    /\ pc \in Ended
    /\ hashfile[a].exists
    /\ hashfile[a].parsable
    /\ edits' = edits + 1
    /\ hashfile' = [hashfile EXCEPT ![a].parsable = FALSE]
    /\ pre' = [pre EXCEPT !.hashfile[a].parsable = FALSE]
    /\ prev' = NoPrev
    /\ halfPulled' = halfPulled \ {a}
    /\ obs' = [obs EXCEPT !.edited = TRUE, !.afterClean = FALSE, !.resumed = @ \ {a},
                        !.fresh = @ \ {a}]
    /\ UNCHANGED <<aside, files, backups, config, remote, cmdvars, everHeld, faults, runs>>

\* The Remote Store starts serving a newer version of an artifact.
RemoteUpdate(a) ==
    /\ remote[a].ver < MaxVersion
    /\ pc \in Ended
    /\ remote' = [remote EXCEPT ![a] = RemoteVersion(@.ver + 1)]
    /\ prev' = NoPrev
    /\ obs' = [obs EXCEPT !.edited = TRUE, !.afterClean = FALSE]
    /\ UNCHANGED <<aside, files, hashfile, backups, config, cmdvars, pre, everHeld,
                   halfPulled, budgets>>

\* The process is killed between two steps.
Interrupt ==
    /\ pc \notin Ended
    /\ Fault
    /\ pc' = "killed"
    /\ obs' = [obs EXCEPT !.clean = FALSE]
    /\ prev' = NoPrev
    /\ halfPulled' = IF pc \in SyncPullSteps THEN halfPulled \cup {art} ELSE halfPulled
    /\ UNCHANGED <<aside, yes, local, world, art, force, dry, tmpl, templates, idx, summary, pre, everHeld,
                   edits, runs>>

\* ------------------------------------------------------ pullCommand -----
\* Variant: the hashes are saved before the creative asset group is fetched
\* and config.json is written.
NextPullStepStampEarly(step) ==
    CASE step = "p_write_html"   -> "p_write_css"
      [] step = "p_write_css"    -> "p_save_hashes"
      [] step = "p_save_hashes"  -> "p_fetch_cag"
      [] step = "p_fetch_cag"    -> "p_write_config"
      [] step = "p_write_config" -> "p_save_config"
      [] step = "p_save_config"  -> "p_ok"

\* The order of the steps of pullCommand after conflict detection
\* (pull.ts:256-301).
NextPullStep(step) ==
    CASE step = "p_write_html"   -> "p_write_css"
      [] step = "p_write_css"    -> "p_fetch_cag"
      [] step = "p_fetch_cag"    -> "p_write_config"
      [] step = "p_write_config" -> "p_save_hashes"
      [] step = "p_save_hashes"  -> "p_save_config"
      [] step = "p_save_config"  -> "p_ok"

\* Sets of unreadable paths tried at a step that reads tracked files.
BadSets == {{}} \cup {{f} : f \in Tracked}

\* The catch block of pullCommand: the command ends with an error.
PullThrows ==
    /\ Fault
    /\ pc' = "p_err"

StartPull(a, fr) ==
    /\ pc \in Ended
    /\ runs < MaxRuns
    /\ runs' = runs + 1
    /\ pc' = "p_fetch"
    /\ art' = a
    /\ force' = fr
    /\ pre' = [files |-> files, hashfile |-> hashfile, backups |-> backups,
               config |-> config]
    /\ obs' = [FreshObs EXCEPT !.kind = "pull", !.corrupt = Unparsable]
    /\ prev' = NoPrev
    /\ halfPulled' = halfPulled \ {a}
    /\ UNCHANGED <<aside, yes, local, world, dry, tmpl, templates, idx, summary, everHeld, edits, faults>>

\* getTemplate, then ensureDirectory(templateDir)
PullFetch ==
    /\ pc = "p_fetch"
    /\ \/ /\ tmpl' = remote[art]
          /\ pc' = "p_detect"
          /\ obs' = [obs EXCEPT !.fetchIssued = TRUE, !.gotTemplate = @ \cup {art}]
          /\ UNCHANGED faults
       \/ /\ PullThrows
          /\ \E remoteFailed \in BOOLEAN :
                obs' = [obs EXCEPT !.fetchIssued = TRUE, !.fetchFailed = remoteFailed,
                                   !.clean = FALSE]
          /\ UNCHANGED tmpl
    /\ UNCHANGED <<aside, yes, local, world, art, force, dry, templates, idx, summary, pre, everHeld, prev,
                   halfPulled, edits, runs>>

\* Variant: conflict detection runs and asks even with --force.
PullDetectForceIgnored ==
    /\ pc = "p_detect"
    /\ \E bad \in BadSets :
         LET r == detectLocalChanges(hashfile[art], files[art], bad) IN
         IF r.threw
         THEN /\ PullThrows
              /\ obs' = [obs EXCEPT !.clean = FALSE]
         ELSE /\ bad = {}
              /\ UNCHANGED faults
              /\ IF Len(r.changes) > 0
                 THEN /\ pc' = "p_await"
                      /\ obs' = [obs EXCEPT !.conflict = TRUE, !.asked = TRUE]
                 ELSE /\ pc' = "p_write_html"
                      /\ UNCHANGED obs
    /\ UNCHANGED <<aside, yes, local, world, art, force, dry, tmpl, templates, idx, summary, pre, everHeld,
                   prev, halfPulled, edits, runs>>

\* Conflict detection, skipped with --force
PullDetect ==
    /\ pc = "p_detect"
    /\ \E bad \in BadSets :
         LET r == detectLocalChanges(hashfile[art], files[art], bad) IN
         IF force
         THEN /\ bad = {}
              /\ pc' = "p_write_html"
              /\ UNCHANGED <<obs, faults>>
         ELSE IF r.threw
         THEN /\ PullThrows
              /\ obs' = [obs EXCEPT !.clean = FALSE]
         ELSE /\ bad = {}
              /\ UNCHANGED faults
              /\ IF Len(r.changes) > 0
                 THEN /\ pc' = "p_await"
                      /\ obs' = [obs EXCEPT !.conflict = TRUE, !.asked = TRUE,
                                            !.warned = @ \cup {"Local changes detected"}]
                 ELSE /\ pc' = "p_write_html"
                      /\ UNCHANGED obs
    /\ UNCHANGED <<aside, yes, local, world, art, force, dry, tmpl, templates, idx, summary, pre, everHeld,
                   prev, halfPulled, edits, runs>>

\* The answer to select()
PullDecide(action) ==
    /\ pc = "p_await"
    /\ pc' = AfterDecision(action)
    /\ obs' = [obs EXCEPT !.decision = action]
    /\ UNCHANGED <<aside, yes, local, world, art, force, dry, tmpl, templates, idx, summary, pre, everHeld,
                   prev, halfPulled, budgets>>

\* backupLocalFiles
PullBackup ==
    /\ pc = "p_backup"
    /\ \/ /\ backups' = [backups EXCEPT ![art] =
                            Append(@, backupLocalFiles(files[art], Len(TRACKED_FILES) + 1))]
          /\ obs' = [obs EXCEPT !.snapshots = @ + 1]
          /\ pc' = "p_write_html"
          /\ UNCHANGED faults
       \/ /\ PullThrows
          /\ \E upto \in 0..Len(TRACKED_FILES) :
                IF upto = 0
                THEN /\ UNCHANGED backups
                     /\ obs' = [obs EXCEPT !.clean = FALSE]
                ELSE /\ files[art][TRACKED_FILES[upto]] # NoFile
                     /\ backups' = [backups EXCEPT ![art] =
                                       Append(@, backupLocalFiles(files[art], upto))]
                     /\ obs' = [obs EXCEPT !.snapshots = @ + 1, !.clean = FALSE]
    /\ UNCHANGED <<aside, yes, local, files, hashfile, config, remote, art, force, dry, tmpl, templates, idx,
                   summary, pre, everHeld, prev, halfPulled, edits, runs>>

\* writeTemplateHtml / writeStylesCss / writeTemplateConfig of pullCommand
PullWrite(step, f) ==
    /\ pc = step
    /\ \/ /\ ToolWrite(art, f, RemoteContent(f, tmpl))
          /\ obs' = [obs EXCEPT !.wrote = @ \cup {<<art, f>>}]
          /\ pc' = NextPullStep(step)
          /\ UNCHANGED faults
       \/ /\ PullThrows
          /\ obs' = [obs EXCEPT !.clean = FALSE]
          /\ UNCHANGED <<files, everHeld>>
    /\ UNCHANGED <<aside, yes, local, hashfile, backups, config, remote, art, force, dry, tmpl, templates,
                   idx, summary, pre, prev, halfPulled, edits, runs>>

PullWriteHtml == PullWrite("p_write_html", "template.html")

PullWriteCss == PullWrite("p_write_css", "styles.css")

PullWriteConfig == PullWrite("p_write_config", "config.json")

\* getCreativeAssetGroup
PullFetchCag ==
    /\ pc = "p_fetch_cag"
    /\ \/ /\ pc' = NextPullStep("p_fetch_cag")
          /\ obs' = [obs EXCEPT !.fetchIssued = TRUE, !.gotCag = @ \cup {art}]
          /\ UNCHANGED faults
       \/ /\ PullThrows
          /\ obs' = [obs EXCEPT !.fetchIssued = TRUE, !.fetchFailed = TRUE, !.clean = FALSE]
    /\ UNCHANGED <<aside, yes, local, world, art, force, dry, tmpl, templates, idx, summary, pre, everHeld,
                   prev, halfPulled, edits, runs>>

\* saveCurrentHashes
PullSaveHashes ==
    /\ pc = "p_save_hashes"
    /\ \/ /\ hashfile' = [hashfile EXCEPT ![art] = savePullHashes(CurrentHashes(files[art]))]
          /\ obs' = [obs EXCEPT !.stamped = @ \cup {art}, !.fresh = @ \cup {art}]
          /\ pc' = NextPullStep("p_save_hashes")
          /\ UNCHANGED faults
       \/ /\ PullThrows
          /\ obs' = [obs EXCEPT !.clean = FALSE]
          /\ UNCHANGED hashfile
    /\ UNCHANGED <<aside, yes, local, files, backups, config, remote, art, force, dry, tmpl, templates, idx,
                   summary, pre, everHeld, prev, halfPulled, edits, runs>>

\* The entry of the template in the project config: replaced when present,
\* appended otherwise.
UpsertTemplate(cfg, a) ==
    IF \E i \in 1..Len(cfg) : cfg[i] = a THEN cfg ELSE Append(cfg, a)

\* loadProjectConfig, saveProjectConfig
PullSaveConfig ==
    /\ pc = "p_save_config"
    /\ \/ /\ config' = UpsertTemplate(config, art)
          /\ pc' = NextPullStep("p_save_config")
          /\ UNCHANGED <<faults, obs>>
       \/ /\ PullThrows
          /\ obs' = [obs EXCEPT !.clean = FALSE]
          /\ UNCHANGED config
    /\ UNCHANGED <<aside, yes, local, files, hashfile, backups, remote, art, force, dry, tmpl, templates, idx,
                   summary, pre, everHeld, prev, halfPulled, edits, runs>>

\* ------------------------------------------------------ syncCommand -----
\* The order of the steps of pullSingleTemplate (sync.ts:75-123).
NextSyncStep(step) ==
    CASE step = "s_fetch"        -> "s_write_html"
      [] step = "s_write_html"   -> "s_write_css"
      [] step = "s_write_css"    -> "s_fetch_cag"
      [] step = "s_fetch_cag"    -> "s_write_config"
      [] step = "s_write_config" -> "s_save_hashes"
      [] step = "s_save_hashes"  -> "s_save_config"
      [] step = "s_save_config"  -> "s_next"

\* Variant: the `skipped` counter is incremented along with the counter of
\* the outcome.
CountAlsoSkipped(counter) ==
    /\ summary' = [summary EXCEPT ![counter] = @ + 1, !.skipped = @ + 1]
    /\ idx' = idx + 1
    /\ pc' = "s_next"

\* summary.<counter>++ for the template being processed, then the next one.
Count(counter) ==
    /\ summary' = [summary EXCEPT ![counter] = @ + 1]
    /\ idx' = idx + 1
    /\ pc' = "s_next"

\* An artifact differs from its baseline: some tracked file with a baseline
\* entry has another fingerprint now (edited, or absent).
Drifted(h, dir) ==
    \E f \in DOMAIN loadPullHashes(h) : computeFileHash(dir[f]) # loadPullHashes(h)[f]

\* How the loop of syncCommand classifies template a in a dry run, when the
\* tracked files can be read: nothing is fetched, a missing artifact is
\* "would be pulled".
DryRunOutcome(a, fs, hs) ==
    IF templateExistsLocally(fs[a])
    THEN IF hasLocalChanges(hs[a], fs[a], {}).result THEN "modified" ELSE "skipped"
    ELSE "pulled"

\* The BulkSummary a dry run over tpls returns from the local state (fs, hs).
DryRunSummary(tpls, fs, hs) ==
    [counter \in {"pulled", "skipped", "failed", "modified"} |->
        Cardinality({i \in 1..Len(tpls) : DryRunOutcome(tpls[i], fs, hs) = counter})]

StartSync(d) ==
    /\ pc \in Ended
    /\ runs < MaxRuns
    /\ runs' = runs + 1
    /\ pc' = "s_load"
    /\ dry' = d
    /\ pre' = [files |-> files, hashfile |-> hashfile, backups |-> backups,
               config |-> config]
    /\ obs' = [FreshObs EXCEPT !.kind = "sync", !.resumed = halfPulled,
                               !.corrupt = Unparsable,
                               !.afterClean = (prev.done /\ prev.failed = 0),
                               !.afterDry = prev.dry]
    /\ prev' = NoPrev
    /\ UNCHANGED <<aside, yes, local, world, art, force, tmpl, templates, idx, summary, everHeld, halfPulled,
                   edits, faults>>

\* getTemplatesForNetwork; the command returns when the list is empty.
SyncLoad ==
    /\ pc = "s_load"
    /\ templates' = config
    /\ idx' = 1
    /\ summary' = [pulled |-> 0, skipped |-> 0, failed |-> 0, modified |-> 0]
    /\ pc' = IF Len(config) = 0 THEN "s_empty" ELSE "s_next"
    /\ UNCHANGED <<aside, yes, local, world, art, force, dry, tmpl, pre, obs, everHeld, prev, halfPulled,
                   budgets>>

\* The head of the loop body: templateExistsLocally, hasLocalChanges, dry run.
SyncVisit ==
    /\ pc = "s_next"
    /\ idx <= Len(templates)
    /\ LET a == templates[idx]
           o == [obs EXCEPT !.drifted = IF Drifted(hashfile[a], files[a])
                                        THEN @ \cup {a} ELSE @]
       IN
       /\ art' = a
       /\ IF templateExistsLocally(files[a])
          THEN \E bad \in BadSets :
                 LET r == hasLocalChanges(hashfile[a], files[a], bad) IN
                 IF r.threw
                 THEN /\ Fault
                      /\ pc' = "s_abort"
                      /\ obs' = [o EXCEPT !.clean = FALSE]
                      /\ UNCHANGED <<summary, idx>>
                 ELSE /\ bad = {}
                      /\ UNCHANGED faults
                      /\ IF r.result
                         THEN /\ Count("modified")
                              /\ obs' = [o EXCEPT !.outcome[a] = "modified",
                                                  !.warned = @ \cup {"has local changes, skipping"}]
                         ELSE /\ Count("skipped")
                              /\ obs' = [o EXCEPT !.outcome[a] = "skipped"]
          ELSE IF isDryRun(dry)
          THEN /\ Count("pulled")
               /\ obs' = [o EXCEPT !.outcome[a] = "pulled"]
               /\ UNCHANGED faults
          ELSE /\ pc' = "s_fetch"
               /\ obs' = o
               /\ UNCHANGED <<summary, idx, faults>>
    /\ UNCHANGED <<aside, yes, local, world, force, dry, tmpl, templates, pre, everHeld, prev, halfPulled,
                   edits, runs>>

\* The catch block around pullSingleTemplate.
SyncPullThrows ==
    /\ Fault
    /\ Count("failed")
    /\ halfPulled' = halfPulled \cup {art}

\* getTemplate, then ensureDirectory(templateDir)
SyncFetch ==
    /\ pc = "s_fetch"
    /\ \/ /\ tmpl' = remote[art]
          /\ pc' = NextSyncStep("s_fetch")
          /\ obs' = [obs EXCEPT !.fetchIssued = TRUE, !.gotTemplate = @ \cup {art}]
          /\ UNCHANGED <<faults, summary, idx, halfPulled>>
       \/ /\ SyncPullThrows
          /\ \E remoteFailed \in BOOLEAN :
                obs' = [obs EXCEPT !.fetchIssued = TRUE, !.fetchFailed = remoteFailed,
                                   !.clean = FALSE, !.outcome[art] = "failed"]
          /\ UNCHANGED tmpl
    /\ UNCHANGED <<aside, yes, local, world, art, force, dry, templates, pre, everHeld, prev, edits, runs>>

\* writeTemplateHtml / writeStylesCss / writeTemplateConfig of pullSingleTemplate
SyncWrite(step, f) ==
    /\ pc = step
    /\ \/ /\ ToolWrite(art, f, RemoteContent(f, tmpl))
          /\ obs' = [obs EXCEPT !.wrote = @ \cup {<<art, f>>}]
          /\ pc' = NextSyncStep(step)
          /\ UNCHANGED <<faults, summary, idx, halfPulled>>
       \/ /\ SyncPullThrows
          /\ obs' = [obs EXCEPT !.clean = FALSE, !.outcome[art] = "failed"]
          /\ UNCHANGED <<files, everHeld>>
    /\ UNCHANGED <<aside, yes, local, hashfile, backups, config, remote, art, force, dry, tmpl, templates,
                   pre, prev, edits, runs>>

SyncWriteHtml == SyncWrite("s_write_html", "template.html")

SyncWriteCss == SyncWrite("s_write_css", "styles.css")

SyncWriteConfig == SyncWrite("s_write_config", "config.json")

\* getCreativeAssetGroup
SyncFetchCag ==
    /\ pc = "s_fetch_cag"
    /\ \/ /\ pc' = NextSyncStep("s_fetch_cag")
          /\ obs' = [obs EXCEPT !.fetchIssued = TRUE, !.gotCag = @ \cup {art}]
          /\ UNCHANGED <<faults, summary, idx, halfPulled>>
       \/ /\ SyncPullThrows
          /\ obs' = [obs EXCEPT !.fetchIssued = TRUE, !.fetchFailed = TRUE,
                                !.clean = FALSE, !.outcome[art] = "failed"]
    /\ UNCHANGED <<aside, yes, local, world, art, force, dry, tmpl, templates, pre, everHeld, prev, edits, runs>>

\* saveCurrentHashes
SyncSaveHashes ==
    /\ pc = "s_save_hashes"
    /\ \/ /\ hashfile' = [hashfile EXCEPT ![art] = savePullHashes(CurrentHashes(files[art]))]
          /\ obs' = [obs EXCEPT !.stamped = @ \cup {art}, !.fresh = @ \cup {art}]
          /\ pc' = NextSyncStep("s_save_hashes")
          /\ UNCHANGED <<faults, summary, idx, halfPulled>>
       \/ /\ SyncPullThrows
          /\ obs' = [obs EXCEPT !.clean = FALSE, !.outcome[art] = "failed"]
          /\ UNCHANGED hashfile
    /\ UNCHANGED <<aside, yes, local, files, backups, config, remote, art, force, dry, tmpl, templates, pre,
                   everHeld, prev, edits, runs>>

\* loadProjectConfig, saveProjectConfig, return true; summary.pulled++
SyncSaveConfig ==
    /\ pc = "s_save_config"
    /\ \/ /\ config' = UpsertTemplate(config, art)
          /\ Count("pulled")
          /\ obs' = [obs EXCEPT !.outcome[art] = "pulled"]
          /\ halfPulled' = halfPulled \ {art}
          /\ UNCHANGED faults
       \/ /\ SyncPullThrows
          /\ obs' = [obs EXCEPT !.clean = FALSE, !.outcome[art] = "failed"]
          /\ UNCHANGED config
    /\ UNCHANGED <<aside, yes, local, files, hashfile, backups, remote, art, force, dry, tmpl, templates, pre,
                   everHeld, prev, edits, runs>>

\* showBulkSummary, outro
SyncFinish ==
    /\ pc = "s_next"
    /\ idx > Len(templates)
    /\ pc' = "s_done"
    /\ prev' = [done |-> ~obs.edited, dry |-> dry, failed |-> summary.failed]
    /\ UNCHANGED <<aside, yes, local, world, art, force, dry, tmpl, templates, idx, summary, pre, obs,
                   everHeld, halfPulled, budgets>>

\* ------------------------------------------------------ pushCommand -----
StartPush(a, y) ==
    /\ pc \in Ended
    /\ runs < MaxRuns
    /\ runs' = runs + 1
    /\ pc' = "u_read"
    /\ art' = a
    /\ yes' = y
    /\ pre' = [files |-> files, hashfile |-> hashfile, backups |-> backups,
               config |-> config]
    /\ obs' = [FreshObs EXCEPT !.kind = "push"]
    /\ prev' = NoPrev
    /\ UNCHANGED <<aside, world, force, dry, tmpl, local, templates, idx, summary, everHeld,
                   halfPulled, edits, faults>>

\* The catch block of pushCommand.
PushThrows ==
    /\ pc' = "u_err"
    /\ obs' = [obs EXCEPT !.clean = FALSE]

\* readTemplateConfig, readTemplateHtml, readStylesCss: a missing file throws.
PushRead ==
    /\ pc = "u_read"
    /\ IF \E f \in Tracked : files[art][f] = NoFile
       THEN /\ PushThrows
            /\ UNCHANGED <<local, faults>>
       ELSE \/ /\ local' = [html |-> files[art]["template.html"],
                            css |-> files[art]["styles.css"]]
               /\ pc' = "u_fetch"
               /\ UNCHANGED <<obs, faults>>
            \/ /\ Fault
               /\ PushThrows
               /\ UNCHANGED local
    /\ UNCHANGED <<aside, world, art, force, dry, tmpl, yes, templates, idx, summary, pre,
                   everHeld, prev, halfPulled, edits, runs>>

\* Variant: the confirmation is skipped whatever the flag.
AfterDiffNeverAsks == "u_publish"

\* After the diff, or without one: --yes skips the confirmation.
AfterDiff == IF yes THEN "u_publish" ELSE "u_confirm"

\* Variant: a failed fetch of the server version ends the push with the error.
PushFetchFailsHard ==
    /\ pc = "u_fetch"
    /\ \/ /\ tmpl' = remote[art]
          /\ IF ~hasChanges(remote[art].html, local.html)
                /\ ~hasChanges(remote[art].css, local.css)
             THEN /\ pc' = "u_nothing"
                  /\ obs' = [obs EXCEPT !.fetchIssued = TRUE, !.gotTemplate = @ \cup {art}]
             ELSE /\ pc' = AfterDiff
                  /\ obs' = [obs EXCEPT !.fetchIssued = TRUE, !.gotTemplate = @ \cup {art},
                                        !.diffShown = TRUE]
          /\ UNCHANGED faults
       \/ /\ Fault
          /\ pc' = "u_err"
          /\ obs' = [obs EXCEPT !.fetchIssued = TRUE, !.fetchFailed = TRUE, !.clean = FALSE]
          /\ UNCHANGED tmpl
    /\ UNCHANGED <<aside, world, art, force, dry, yes, local, templates, idx, summary, pre,
                   everHeld, prev, halfPulled, edits, runs>>

\* getTemplate for the comparison; a failed fetch is only a warning.
PushFetch ==
    /\ pc = "u_fetch"
    /\ \/ /\ tmpl' = remote[art]
          /\ IF ~hasChanges(remote[art].html, local.html)
                /\ ~hasChanges(remote[art].css, local.css)
             THEN /\ pc' = "u_nothing"
                  /\ obs' = [obs EXCEPT !.fetchIssued = TRUE, !.gotTemplate = @ \cup {art}]
             ELSE /\ pc' = AfterDiff
                  /\ obs' = [obs EXCEPT !.fetchIssued = TRUE, !.gotTemplate = @ \cup {art},
                                        !.diffShown = TRUE]
          /\ UNCHANGED faults
       \/ /\ Fault
          /\ pc' = AfterDiff
          /\ obs' = [obs EXCEPT !.fetchIssued = TRUE, !.fetchFailed = TRUE,
                                !.warned = @ \cup {"Unable to fetch server version"}]
          /\ UNCHANGED tmpl
    /\ UNCHANGED <<aside, world, art, force, dry, yes, local, templates, idx, summary, pre,
                   everHeld, prev, halfPulled, edits, runs>>

Answers == {"confirm", "decline", "isCancel"}

\* The answer to confirm()
PushConfirm(answer) ==
    /\ pc = "u_confirm"
    /\ pc' = IF answer = "confirm" THEN "u_publish" ELSE "u_cancelled"
    /\ obs' = [obs EXCEPT !.asked = TRUE, !.decision = answer]
    /\ UNCHANGED <<aside, world, art, force, dry, tmpl, yes, local, templates, idx, summary, pre,
                   everHeld, prev, halfPulled, budgets>>

\* updateTemplate(config.templateId, {html, css}): the payload replaces the
\* markup and the style of the latest remote template.
Published(t, l) == [t EXCEPT !.html = l.html, !.css = l.css]

\* The GET or the PUT of updateTemplate may fail before the store changes;
\* the response of an accepted PUT may fail to parse after it changed.
PushPublish ==
    /\ pc = "u_publish"
    /\ \/ /\ remote' = [remote EXCEPT ![art] = Published(@, local)]
          /\ pc' = "u_ok"
          /\ obs' = [obs EXCEPT !.published = TRUE]
          /\ UNCHANGED faults
       \/ /\ Fault
          /\ PushThrows
          /\ UNCHANGED remote
       \/ /\ Fault
          /\ PushThrows
          /\ remote' = [remote EXCEPT ![art] = Published(@, local)]
    /\ UNCHANGED <<aside, files, hashfile, backups, config, art, force, dry, tmpl, yes, local,
                   templates, idx, summary, pre, everHeld, prev, halfPulled, edits, runs>>

\* ------------------------------------------------------ specification ---
Next ==
    \/ \E a \in Artifacts, f \in Tracked, c \in UserContents \cup {NoFile} : UserEdit(a, f, c)
    \/ \E a \in Artifacts : DamageHashFile(a)
    \/ \E a \in Artifacts : RemoteUpdate(a)
    \/ Interrupt
    \/ \E a \in Artifacts, fr \in BOOLEAN : StartPull(a, fr)
    \/ PullFetch
    \/ PullDetect
    \/ \E action \in Decisions : PullDecide(action)
    \/ PullBackup
    \/ PullWriteHtml
    \/ PullWriteCss
    \/ PullFetchCag
    \/ PullWriteConfig
    \/ PullSaveHashes
    \/ PullSaveConfig
    \/ \E d \in BOOLEAN : StartSync(d)
    \/ SyncLoad
    \/ SyncVisit
    \/ SyncFetch
    \/ SyncWriteHtml
    \/ SyncWriteCss
    \/ SyncFetchCag
    \/ SyncWriteConfig
    \/ SyncSaveHashes
    \/ SyncSaveConfig
    \/ SyncFinish
    \/ \E a \in Artifacts, y \in BOOLEAN : StartPush(a, y)
    \/ PushRead
    \/ PushFetch
    \/ \E answer \in Answers : PushConfirm(answer)
    \/ PushPublish

Spec == Init /\ [][Next]_vars

\* ================================================ the diff utility ======
\* generateDiff(oldText, newText, filename) and its two helpers, one action
\* per phase of the call.  A text is given by the lines that
\* oldText.split('\n') yields: a non-empty list of strings without line
\* breaks (the empty text is the one-element list <<"">>); the text itself
\* is those lines joined by '\n'.
MaxLines == 3

Lines == {"", "line1", "line2", "line3", "lineX"}

Texts == UNION {[1..n -> Lines] : n \in 1..MaxLines}

RECURSIVE JoinLines(_)
JoinLines(lines) ==
    IF Len(lines) = 1 THEN lines[1]
    ELSE lines[1] \o "\n" \o JoinLines(Tail(lines))

Max(a, b) == IF a >= b THEN a ELSE b

\* Variant: where the lines differ the cell gets 0 instead of the larger
\* neighbour.
computeLCSNoCarry(oldLines, newLines) ==
    LET m == Len(oldLines)
        n == Len(newLines)
        dp[i \in 0..m, j \in 0..n] ==
            IF i = 0 \/ j = 0 THEN 0
            ELSE IF oldLines[i] = newLines[j] THEN dp[i - 1, j - 1] + 1
            ELSE 0
    IN  dp

\* The table of longest-common-subsequence lengths, dp[i][j] for the first i
\* old lines and the first j new lines.
computeLCS(oldLines, newLines) ==
    LET m == Len(oldLines)
        n == Len(newLines)
        dp[i \in 0..m, j \in 0..n] ==
            IF i = 0 \/ j = 0 THEN 0
            ELSE IF oldLines[i] = newLines[j] THEN dp[i - 1, j - 1] + 1
            ELSE Max(dp[i - 1, j], dp[i, j - 1])
    IN  dp

NoTable == <<>>

\* The loop of buildChanges with the add operation numbered by the old
\* position instead of the new one.
RECURSIVE walkBackAddAtOld(_, _, _, _, _, _)
walkBackAddAtOld(oldLines, newLines, dp, i, j, reversed) ==
    IF ~(i > 0 \/ j > 0) THEN reversed
    ELSE IF i > 0 /\ j > 0 /\ oldLines[i] = newLines[j]
         THEN walkBackAddAtOld(oldLines, newLines, dp, i - 1, j - 1, reversed)
    ELSE IF j > 0 /\ (i = 0 \/ dp[i, j - 1] >= dp[i - 1, j])
         THEN walkBackAddAtOld(oldLines, newLines, dp, i, j - 1,
                  Append(reversed, [type |-> "add", text |-> newLines[j], lineNum |-> i]))
    ELSE walkBackAddAtOld(oldLines, newLines, dp, i - 1, j,
                  Append(reversed, [type |-> "remove", text |-> oldLines[i], lineNum |-> i]))

\* The loop of buildChanges without its first branch: equal lines are not
\* skipped.
RECURSIVE walkBackNoSkip(_, _, _, _, _, _)
walkBackNoSkip(oldLines, newLines, dp, i, j, reversed) ==
    IF ~(i > 0 \/ j > 0) THEN reversed
    ELSE IF j > 0 /\ (i = 0 \/ dp[i, j - 1] >= dp[i - 1, j])
         THEN walkBackNoSkip(oldLines, newLines, dp, i, j - 1,
                  Append(reversed, [type |-> "add", text |-> newLines[j], lineNum |-> j]))
    ELSE walkBackNoSkip(oldLines, newLines, dp, i - 1, j,
                  Append(reversed, [type |-> "remove", text |-> oldLines[i], lineNum |-> i]))

\* The while loop of buildChanges, from the bottom-right corner (i, j) of the
\* table: equal lines are skipped, otherwise an add when the cell to the left
\* is at least the cell above, otherwise a remove.
RECURSIVE walkBack(_, _, _, _, _, _)
walkBack(oldLines, newLines, dp, i, j, reversed) ==
    IF ~(i > 0 \/ j > 0) THEN reversed
    ELSE IF i > 0 /\ j > 0 /\ oldLines[i] = newLines[j]
         THEN walkBack(oldLines, newLines, dp, i - 1, j - 1, reversed)
    ELSE IF j > 0 /\ (i = 0 \/ dp[i, j - 1] >= dp[i - 1, j])
         THEN walkBack(oldLines, newLines, dp, i, j - 1,
                  Append(reversed, [type |-> "add", text |-> newLines[j], lineNum |-> j]))
    ELSE IF i > 0
         THEN walkBack(oldLines, newLines, dp, i - 1, j,
                  Append(reversed, [type |-> "remove", text |-> oldLines[i], lineNum |-> i]))
    ELSE reversed

buildChanges(oldLines, newLines, dp) ==
    LET reversed == walkBack(oldLines, newLines, dp, Len(oldLines), Len(newLines), <<>>)
    IN  [k \in 1..Len(reversed) |-> reversed[Len(reversed) + 1 - k]]

\* String(lineNum).padStart(4, ' ') for the line numbers that occur.
padStart4(lineNum) ==
    IF lineNum < 10 THEN "   " \o ToString(lineNum) ELSE "  " \o ToString(lineNum)

\* One output line per change, between the file name and the summary line.
diffLinesOf(changes, filename) ==
    LET body == [k \in 1..Len(changes) |->
                    IF changes[k].type = "remove"
                    THEN "  " \o padStart4(changes[k].lineNum) \o " - " \o changes[k].text
                    ELSE "  " \o padStart4(changes[k].lineNum) \o " + " \o changes[k].text]
        additions == Cardinality({k \in 1..Len(changes) : changes[k].type = "add"})
        deletions == Cardinality({k \in 1..Len(changes) : changes[k].type = "remove"})
        plus  == IF additions > 0 THEN "+" \o ToString(additions) ELSE ""
        minus == IF deletions > 0 THEN "-" \o ToString(deletions) ELSE ""
        sep   == IF additions > 0 /\ deletions > 0 THEN ", " ELSE ""
    IN  <<filename \o ":">> \o body \o <<"  " \o plus \o sep \o minus \o " line(s)">>

Filename == "template.html"

NoResult == [hasChanges |-> FALSE, additions |-> -1, deletions |-> -1,
             formatted |-> <<>>]

\* generateDiff has been called and has split both texts.
DiffCalled(oldLines, newLines) ==
    [pc |-> "compare",
     oldText |-> JoinLines(oldLines), newText |-> JoinLines(newLines),
     oldLines |-> oldLines, newLines |-> newLines,
     lcs |-> NoTable, changes |-> <<>>, result |-> NoResult]

DiffInit ==
    /\ AtRest /\ config = <<>>
    /\ snap = NoSnap /\ par = NoPar /\ fh = NoCall
    /\ diff \in {DiffCalled(A, B) : A, B \in Texts}

\* if (oldText === newText) return { hasChanges: false, additions: 0, ... }
GenerateDiffIdentical ==
    /\ diff.pc = "compare"
    /\ ~hasChanges(diff.oldText, diff.newText)
    /\ diff' = [diff EXCEPT !.pc = "returned",
                            !.result = [hasChanges |-> FALSE, additions |-> 0,
                                        deletions |-> 0,
                                        formatted |-> <<Filename \o ": no changes">>]]
    /\ UNCHANGED <<fh, world, cmdvars, pre, obs, everHeld, prev, halfPulled, budgets, snap, par>>

\* const lcs = computeLCS(oldLines, newLines)
GenerateDiffLCS ==
    /\ diff.pc = "compare"
    /\ hasChanges(diff.oldText, diff.newText)
    /\ diff' = [diff EXCEPT !.pc = "build",
                            !.lcs = computeLCS(diff.oldLines, diff.newLines)]
    /\ UNCHANGED <<fh, world, cmdvars, pre, obs, everHeld, prev, halfPulled, budgets, snap, par>>

\* const changes = buildChanges(oldLines, newLines, lcs)
GenerateDiffBuild ==
    /\ diff.pc = "build"
    /\ diff' = [diff EXCEPT !.pc = "format",
                            !.changes = buildChanges(diff.oldLines, diff.newLines, diff.lcs)]
    /\ UNCHANGED <<fh, world, cmdvars, pre, obs, everHeld, prev, halfPulled, budgets, snap, par>>

\* The loop over the changes that formats and counts them, and the return.
GenerateDiffFormat ==
    /\ diff.pc = "format"
    /\ diff' = [diff EXCEPT
           !.pc = "returned",
           !.result = [hasChanges |-> TRUE,
                       additions |-> Cardinality({k \in 1..Len(diff.changes) :
                                                     diff.changes[k].type = "add"}),
                       deletions |-> Cardinality({k \in 1..Len(diff.changes) :
                                                     diff.changes[k].type = "remove"}),
                       formatted |-> diffLinesOf(diff.changes, Filename)]]
    /\ UNCHANGED <<fh, world, cmdvars, pre, obs, everHeld, prev, halfPulled, budgets, snap, par>>

DiffNext ==
    \/ GenerateDiffIdentical
    \/ GenerateDiffLCS
    \/ GenerateDiffBuild
    \/ GenerateDiffFormat

SpecDiff == DiffInit /\ [][DiffNext]_vars

\* ============================================ backups under a clock =====
\* backupLocalFiles with the name of the snapshot directory computed from the
\* clock as the code computes it, and the backup root as the directories
\* that exist under {templateDir}/.backup.  Backups of one template
\* directory are taken by NumBackups processes; the clock has millisecond
\* readings 0..MaxClock.
MaxClock == 1

NumBackups == 2

BackupProcs == 1..NumBackups

\* All that is outside the diff, backup and concurrency models.
main == <<world, cmdvars, pre, obs, everHeld, prev, halfPulled, budgets>>

\* new Date().toISOString().replace(/[:.]/g, '-') at `ms` milliseconds after
\* the epoch: the ISO form has millisecond resolution.
Timestamp(ms) ==
    "1970-01-01T00-00-00-"
        \o (IF ms < 10 THEN "00" ELSE IF ms < 100 THEN "0" ELSE "") \o ToString(ms)
        \o "Z"

\* mkdir -p: creates the directory when it is missing, succeeds without a
\* change when it exists.
ensureDirectory(root, name) ==
    IF name \in DOMAIN root THEN root ELSE root @@ (name :> <<>>)

\* Bun.write(path, content) into a snapshot directory: creates the file or
\* replaces its content.
BunWrite(snapshot, f, c) ==
    [g \in DOMAIN snapshot \cup {f} |-> IF g = f THEN c ELSE snapshot[g]]

BackupInit ==
    /\ AtRest /\ config = <<>>
    /\ diff = NoDiff /\ par = NoPar /\ fh = NoCall
    /\ snap = [clock |-> 0,
               dir   |-> [f \in Tracked |-> RemoteContent(f, RemoteVersion(1))],
               root  |-> <<>>,
               edits |-> 0,
               proc  |-> [p \in BackupProcs |-> [pc |-> "idle", backupDir |-> "", k |-> 1]]]

\* A millisecond passes.
ClockTick ==
    /\ snap.clock < MaxClock
    /\ snap' = [snap EXCEPT !.clock = @ + 1]
    /\ UNCHANGED <<fh, main, diff, par>>

\* A tracked file of the template directory is saved or deleted.
DirEdit(f, c) ==
    /\ snap.edits < MaxEdits
    /\ snap.dir[f] # c
    /\ snap' = [snap EXCEPT !.dir[f] = c, !.edits = @ + 1]
    /\ UNCHANGED <<fh, main, diff, par>>

\* const timestamp = ...; const backupDir = `${templateDir}/.backup/${timestamp}`
BackupTimestamp(p) ==
    /\ snap.proc[p].pc = "idle"
    /\ snap' = [snap EXCEPT !.proc[p] = [pc |-> "mkdir",
                                         backupDir |-> Timestamp(snap.clock),
                                         k |-> 1]]
    /\ UNCHANGED <<fh, main, diff, par>>

\* await ensureDirectory(backupDir)
BackupEnsureDirectory(p) ==
    /\ snap.proc[p].pc = "mkdir"
    /\ snap' = [snap EXCEPT !.root = ensureDirectory(@, snap.proc[p].backupDir),
                            !.proc[p].pc = "copy"]
    /\ UNCHANGED <<fh, main, diff, par>>

\* One round of the copy loop: the tracked file number k is copied when it
\* exists; after the last file the function returns.
BackupCopyFile(p) ==
    LET me == snap.proc[p]
        f  == TRACKED_FILES[me.k]
    IN  /\ me.pc = "copy"
        /\ snap' = [snap EXCEPT
               !.root = IF snap.dir[f] # NoFile
                        THEN [@ EXCEPT ![me.backupDir] = BunWrite(@, f, snap.dir[f])]
                        ELSE @,
               !.proc[p].k = @ + 1,
               !.proc[p].pc = IF me.k = Len(TRACKED_FILES) THEN "returned" ELSE "copy"]
        /\ UNCHANGED <<fh, main, diff, par>>

BackupNext ==
    \/ ClockTick
    \/ \E f \in Tracked, c \in UserContents \cup {NoFile} : DirEdit(f, c)
    \/ \E p \in BackupProcs : BackupTimestamp(p)
    \/ \E p \in BackupProcs : BackupEnsureDirectory(p)
    \/ \E p \in BackupProcs : BackupCopyFile(p)

SpecBackup == BackupInit /\ [][BackupNext]_vars

\* ============================================== pulls side by side ======
\* NumProcs pull commands run as separate processes on the same project
\* directory.  Every await of pullCommand is a point where the other process
\* can run; nothing in the code takes a lock.  The processes work on the
\* shared files, hash files and project config; par holds what each process
\* keeps in memory.  saveCurrentHashes reads the tracked files and then
\* writes the hash file; the reads are taken together as one step.
NumProcs == 2

ParProcs == 1..NumProcs

ParStarted(arts) ==
    [proc |-> [p \in ParProcs |->
                  [pc |-> "fetch", art |-> arts[p], tmpl |-> RemoteVersion(1),
                   hashes |-> EmptyMap, projectConfig |-> <<>>]]]

ParInit ==
    /\ AtRest
    /\ diff = NoDiff /\ snap = NoSnap /\ fh = NoCall
    /\ par \in {ParStarted(arts) : arts \in [ParProcs -> Artifacts]}

\* The order of the steps of pullCommand after the conflict detection.
NextParStep(step) ==
    CASE step = "w_html"   -> "w_css"
      [] step = "w_css"    -> "w_config"
      [] step = "w_config" -> "h_read"
      [] step = "h_read"   -> "h_write"
      [] step = "h_write"  -> "c_load"
      [] step = "c_load"   -> "c_save"
      [] step = "c_save"   -> "done"

\* The Remote Store starts serving a newer version of an artifact.
ParRemoteUpdate(a) ==
    /\ remote[a].ver < MaxVersion
    /\ remote' = [remote EXCEPT ![a] = RemoteVersion(@.ver + 1)]
    /\ UNCHANGED <<files, hashfile, backups, config, cmdvars, pre, obs, everHeld, prev,
                   halfPulled, budgets, aside>>

\* The user saves or deletes a tracked file in an editor.
ParUserEdit(a, f, c) ==
    /\ edits < MaxEdits
    /\ files[a][f] # c
    /\ files' = [files EXCEPT ![a][f] = c]
    /\ edits' = edits + 1
    /\ UNCHANGED <<hashfile, backups, config, remote, cmdvars, pre, obs, everHeld, prev,
                   halfPulled, faults, runs, aside>>

\* const template = await getTemplate(args.template)
ParFetch(p) ==
    /\ par.proc[p].pc = "fetch"
    /\ par' = [par EXCEPT !.proc[p].tmpl = remote[par.proc[p].art],
                          !.proc[p].pc = "detect"]
    /\ UNCHANGED <<fh, main, diff, snap>>

\* detectLocalChanges and the branch on its result
ParDetect(p) ==
    LET a == par.proc[p].art
        r == detectLocalChanges(hashfile[a], files[a], {})
    IN  /\ par.proc[p].pc = "detect"
        /\ par' = [par EXCEPT !.proc[p].pc =
                                  IF Len(r.changes) > 0 THEN "await" ELSE "w_html"]
        /\ UNCHANGED <<fh, main, diff, snap>>

\* The answer to select(): overwrite goes on, skip returns.
ParDecide(p, action) ==
    /\ par.proc[p].pc = "await"
    /\ par' = [par EXCEPT !.proc[p].pc =
                              IF action = "overwrite" THEN "w_html" ELSE "skipped"]
    /\ UNCHANGED <<fh, main, diff, snap>>

\* writeTemplateHtml / writeStylesCss / writeTemplateConfig
ParWrite(p, step, f) ==
    LET a == par.proc[p].art IN
    /\ par.proc[p].pc = step
    /\ files' = [files EXCEPT ![a][f] = RemoteContent(f, par.proc[p].tmpl)]
    /\ par' = [par EXCEPT !.proc[p].pc = NextParStep(step)]
    /\ UNCHANGED <<fh, hashfile, backups, config, remote, cmdvars, pre, obs, everHeld, prev,
                   halfPulled, budgets, diff, snap>>

ParWriteHtml(p) == ParWrite(p, "w_html", "template.html")

ParWriteCss(p) == ParWrite(p, "w_css", "styles.css")

ParWriteConfig(p) == ParWrite(p, "w_config", "config.json")

\* saveCurrentHashes: the loop that reads and hashes the tracked files
ParHashRead(p) ==
    /\ par.proc[p].pc = "h_read"
    /\ par' = [par EXCEPT !.proc[p].hashes = CurrentHashes(files[par.proc[p].art]),
                          !.proc[p].pc = NextParStep("h_read")]
    /\ UNCHANGED <<fh, main, diff, snap>>

\* saveCurrentHashes: await savePullHashes(templateDir, hashes)
ParHashWrite(p) ==
    /\ par.proc[p].pc = "h_write"
    /\ hashfile' = [hashfile EXCEPT ![par.proc[p].art] = savePullHashes(par.proc[p].hashes)]
    /\ par' = [par EXCEPT !.proc[p].pc = NextParStep("h_write")]
    /\ UNCHANGED <<fh, files, backups, config, remote, cmdvars, pre, obs, everHeld, prev,
                   halfPulled, budgets, diff, snap>>

\* const projectConfig = await loadProjectConfig()
ParConfigLoad(p) ==
    /\ par.proc[p].pc = "c_load"
    /\ par' = [par EXCEPT !.proc[p].projectConfig = config,
                          !.proc[p].pc = NextParStep("c_load")]
    /\ UNCHANGED <<fh, main, diff, snap>>

\* The entry is put into the loaded object; await saveProjectConfig(projectConfig)
ParConfigSave(p) ==
    /\ par.proc[p].pc = "c_save"
    /\ config' = UpsertTemplate(par.proc[p].projectConfig, par.proc[p].art)
    /\ par' = [par EXCEPT !.proc[p].pc = NextParStep("c_save")]
    /\ UNCHANGED <<fh, files, hashfile, backups, remote, cmdvars, pre, obs, everHeld, prev,
                   halfPulled, budgets, diff, snap>>

ParNext ==
    \/ \E a \in Artifacts : ParRemoteUpdate(a)
    \/ \E a \in Artifacts, f \in Tracked, c \in UserContents \cup {NoFile} : ParUserEdit(a, f, c)
    \/ \E p \in ParProcs : ParFetch(p)
    \/ \E p \in ParProcs : ParDetect(p)
    \/ \E p \in ParProcs, action \in {"overwrite", "skip"} : ParDecide(p, action)
    \/ \E p \in ParProcs : ParWriteHtml(p)
    \/ \E p \in ParProcs : ParWriteCss(p)
    \/ \E p \in ParProcs : ParWriteConfig(p)
    \/ \E p \in ParProcs : ParHashRead(p)
    \/ \E p \in ParProcs : ParHashWrite(p)
    \/ \E p \in ParProcs : ParConfigLoad(p)
    \/ \E p \in ParProcs : ParConfigSave(p)

SpecPar == ParInit /\ [][ParNext]_vars

\* ========================================== buildChanges, step by step ==
\* The while loop of buildChanges with one action per branch of its body,
\* for the calls generateDiff makes: two different texts and the table
\* computeLCS returned for them.  `steps` counts the rounds of the loop and
\* `reads` holds the cells of the table the last round looked at.

\* Variant: the add branch asks for a strictly larger left cell.
takeAddStrict(dp, i, j) == j > 0 /\ (i = 0 \/ dp[i, j - 1] > dp[i - 1, j])

\* else if (j > 0 && (i === 0 || dp[i][j - 1] >= dp[i - 1][j]))
takeAdd(dp, i, j) == j > 0 /\ (i = 0 \/ dp[i, j - 1] >= dp[i - 1, j])

\* Variant: the add branch is not taken in the top row of the table.
branchOfNoTopRow(oldLines, newLines, dp, i, j) ==
    IF i > 0 /\ j > 0 /\ oldLines[i] = newLines[j] THEN "skip"
    ELSE IF j > 0 /\ i > 0 /\ dp[i, j - 1] >= dp[i - 1, j] THEN "add"
    ELSE IF i > 0 THEN "remove"
    ELSE "none"

\* The branch of the loop body that runs at position (i, j); "none" when no
\* condition of the if / else-if chain is true.
branchOf(oldLines, newLines, dp, i, j) ==
    IF i > 0 /\ j > 0 /\ oldLines[i] = newLines[j] THEN "skip"
    ELSE IF takeAdd(dp, i, j) THEN "add"
    ELSE IF i > 0 THEN "remove"
    ELSE "none"

\* The cells dp[..][..] that the conditions of the chain evaluate at (i, j):
\* the second condition is reached when the first is false, and looks at
\* the table only when j > 0 and i is not 0.
tableReads(oldLines, newLines, i, j) ==
    IF i > 0 /\ j > 0 /\ oldLines[i] = newLines[j] THEN {}
    ELSE IF j > 0 /\ i # 0 THEN {<<i, j - 1>>, <<i - 1, j>>}
    ELSE {}

\* buildChanges(oldLines, newLines, dp) has been entered.
WalkCalled(oldLines, newLines) ==
    [pc |-> "loop", oldLines |-> oldLines, newLines |-> newLines,
     dp |-> computeLCS(oldLines, newLines),
     i |-> Len(oldLines), j |-> Len(newLines),
     reversed |-> <<>>, changes |-> <<>>, steps |-> 0, reads |-> {}]

WalkInit ==
    /\ AtRest /\ config = <<>>
    /\ snap = NoSnap /\ par = NoPar /\ fh = NoCall
    /\ diff \in {WalkCalled(A, B) : A, B \in Texts}
    /\ hasChanges(JoinLines(diff.oldLines), JoinLines(diff.newLines))

InLoop == diff.pc = "loop" /\ (diff.i > 0 \/ diff.j > 0)

\* Line is unchanged, skip: i--; j--
BuildChangesSkip ==
    /\ InLoop
    /\ branchOf(diff.oldLines, diff.newLines, diff.dp, diff.i, diff.j) = "skip"
    /\ diff' = [diff EXCEPT !.i = @ - 1, !.j = @ - 1, !.steps = @ + 1,
                   !.reads = tableReads(diff.oldLines, diff.newLines, diff.i, diff.j)]
    /\ UNCHANGED <<fh, main, snap, par>>

\* reversed.push({ type: 'add', text: newLines[j - 1], lineNum: j }); j--
BuildChangesAdd ==
    /\ InLoop
    /\ branchOf(diff.oldLines, diff.newLines, diff.dp, diff.i, diff.j) = "add"
    /\ diff' = [diff EXCEPT
           !.reversed = Append(@, [type |-> "add", text |-> diff.newLines[diff.j],
                                   lineNum |-> diff.j]),
           !.j = @ - 1, !.steps = @ + 1,
           !.reads = tableReads(diff.oldLines, diff.newLines, diff.i, diff.j)]
    /\ UNCHANGED <<fh, main, snap, par>>

\* reversed.push({ type: 'remove', text: oldLines[i - 1], lineNum: i }); i--
BuildChangesRemove ==
    /\ InLoop
    /\ branchOf(diff.oldLines, diff.newLines, diff.dp, diff.i, diff.j) = "remove"
    /\ diff' = [diff EXCEPT
           !.reversed = Append(@, [type |-> "remove", text |-> diff.oldLines[diff.i],
                                   lineNum |-> diff.i]),
           !.i = @ - 1, !.steps = @ + 1,
           !.reads = tableReads(diff.oldLines, diff.newLines, diff.i, diff.j)]
    /\ UNCHANGED <<fh, main, snap, par>>

\* The loop has ended: the changes are copied in reverse order and returned.
BuildChangesReturn ==
    /\ diff.pc = "loop"
    /\ ~(diff.i > 0 \/ diff.j > 0)
    /\ diff' = [diff EXCEPT
           !.pc = "built",
           !.changes = [k \in 1..Len(diff.reversed) |->
                           diff.reversed[Len(diff.reversed) + 1 - k]],
           !.reads = {}]
    /\ UNCHANGED <<fh, main, snap, par>>

WalkNext ==
    \/ BuildChangesSkip
    \/ BuildChangesAdd
    \/ BuildChangesRemove
    \/ BuildChangesReturn

SpecWalk == WalkInit /\ [][WalkNext]_vars

\* The loop body has no await: once entered, the loop keeps running.
SpecWalkFair == SpecWalk /\ WF_vars(WalkNext)

\* ======================================= computeFileHash, step by step ==
\* saveCurrentHashes calling computeFileHash for each tracked file, with the
\* two awaits of computeFileHash (file.exists(), file.arrayBuffer()) as
\* separate steps, so that the file can be deleted, saved or made unreadable
\* between them.  fh.locked holds the files that cannot be read.
FileContents == {"", "edited"}

FileError == "FileError"

\* Variant: the catch block returns '' instead of throwing.
digestOrEmpty(content, readable) ==
    IF content = NoFile \/ ~readable THEN "" ELSE Hash(content)

\* The try block of computeFileHash: arrayBuffer() rejects when the file is
\* gone or cannot be read and the catch throws FileError; otherwise the hex
\* digest of the bytes.
digestOrThrow(content, readable) ==
    IF content = NoFile \/ ~readable THEN FileError ELSE Hash(content)

HashInit ==
    /\ AtRest /\ config = <<>>
    /\ diff = NoDiff /\ snap = NoSnap /\ par = NoPar
    /\ fh \in {[pc |-> "exists", dir |-> d, locked |-> l, k |-> 1, hashes |-> EmptyMap,
                calls |-> <<>>, edits |-> 0] :
                  d \in [Tracked -> FileContents \cup {NoFile}], l \in SUBSET Tracked}

\* After the call for tracked file k: the next file, or savePullHashes.
AfterCall(k) == IF k = Len(TRACKED_FILES) THEN "save" ELSE "exists"

\* if (!(await file.exists())) return ''
HashFileExists ==
    LET f == TRACKED_FILES[fh.k] IN
    /\ fh.pc = "exists"
    /\ IF fh.dir[f] = NoFile
       THEN fh' = [fh EXCEPT
                !.calls = Append(@, [file |-> f, existed |-> FALSE, readOk |-> FALSE,
                                     content |-> NoFile, result |-> ""]),
                !.pc = AfterCall(fh.k),
                !.k = @ + 1]
       ELSE fh' = [fh EXCEPT !.pc = "read"]
    /\ UNCHANGED <<main, diff, snap, par>>

\* const content = await file.arrayBuffer(); ... return hasher.digest('hex'),
\* and `if (hash) hashes[fileName] = hash` of the caller; a throw ends
\* saveCurrentHashes.
HashFileRead ==
    LET f == TRACKED_FILES[fh.k]
        readable == f \notin fh.locked
        hash == digestOrThrow(fh.dir[f], readable)
        call == [file |-> f, existed |-> TRUE,
                 readOk |-> fh.dir[f] # NoFile /\ readable,
                 content |-> fh.dir[f], result |-> hash]
    IN  /\ fh.pc = "read"
        /\ IF hash = FileError
           THEN fh' = [fh EXCEPT !.calls = Append(@, call), !.pc = "threw"]
           ELSE fh' = [fh EXCEPT
                    !.calls = Append(@, call),
                    !.hashes = IF hash # ""
                               THEN [g \in DOMAIN @ \cup {f} |-> IF g = f THEN hash ELSE @[g]]
                               ELSE @,
                    !.pc = AfterCall(fh.k),
                    !.k = @ + 1]
        /\ UNCHANGED <<main, diff, snap, par>>

\* await savePullHashes(templateDir, hashes)
HashSave ==
    /\ fh.pc = "save"
    /\ fh' = [fh EXCEPT !.pc = "saved"]
    /\ UNCHANGED <<main, diff, snap, par>>

\* A tracked file is saved or deleted while the hashes are computed.
HashDirEdit(f, c) ==
    /\ fh.pc \in {"exists", "read"}
    /\ fh.edits < MaxEdits
    /\ fh.dir[f] # c
    /\ fh' = [fh EXCEPT !.dir[f] = c, !.edits = @ + 1]
    /\ UNCHANGED <<main, diff, snap, par>>

\* A tracked file becomes unreadable while the hashes are computed.
HashFileLocked(f) ==
    /\ fh.pc \in {"exists", "read"}
    /\ fh.edits < MaxEdits
    /\ f \notin fh.locked
    /\ fh' = [fh EXCEPT !.locked = @ \cup {f}, !.edits = @ + 1]
    /\ UNCHANGED <<main, diff, snap, par>>

HashNext ==
    \/ HashFileExists
    \/ HashFileRead
    \/ HashSave
    \/ \E f \in Tracked, c \in FileContents \cup {NoFile} : HashDirEdit(f, c)
    \/ \E f \in Tracked : HashFileLocked(f)

SpecHash == HashInit /\ [][HashNext]_vars

\* ============================================ the schema refresh ========
\* refresh-schema rewrites config.json of a pulled template with the
\* creative asset group the Remote Store serves now.  The specification
\* below adds this command to the commands of Spec.
Versions == 1..MaxVersion

\* JSON.stringify of a template config whose template metadata was pulled
\* at version k and whose creative asset group is the one of version r.
\* schemaCacheMeta is not a key of TemplateConfigSchema: the parse in
\* saveTemplateConfig strips it, so the text depends on k and r only.
ConfigJson(k, r) ==
    IF k = r THEN TemplateConfigJson(RemoteVersion(k))
    ELSE TemplateConfigJson(RemoteVersion(k)) \o "+cag-v" \o ToString(r)

\* loadTemplateConfig: the file exists, is JSON and passes the schema.
ConfigLoads(c) == \E k \in Versions, r \in Versions : c = ConfigJson(k, r)

\* The version of the template metadata held by a config that loads.
MetaVersion(c) == CHOOSE k \in Versions : \E r \in Versions : c = ConfigJson(k, r)

\* updatedConfig of refreshSchemaCommand as saveTemplateConfig writes it.
refreshedConfig(c, fresh) == ConfigJson(MetaVersion(c), fresh)

\* refreshSchemaCommand: load, fetch, save; every error is caught.  The
\* command never opens .pull-hashes.json.
RefreshSchema(a) ==
    /\ pc \in Ended
    /\ ConfigLoads(files[a]["config.json"])
    /\ \/ /\ ToolWrite(a, "config.json",
                       refreshedConfig(files[a]["config.json"], remote[a].ver))
          /\ pre' = [pre EXCEPT !.files[a]["config.json"] =
                        refreshedConfig(files[a]["config.json"], remote[a].ver)]
          /\ prev' = NoPrev
          /\ UNCHANGED faults
       \/ /\ Fault
          /\ UNCHANGED <<files, everHeld, pre, prev>>
    /\ UNCHANGED <<aside, hashfile, backups, config, remote, cmdvars, obs, halfPulled,
                   edits, runs>>

RefreshNext ==
    \/ Next
    \/ \E a \in Artifacts : RefreshSchema(a)

SpecRefresh == Init /\ [][RefreshNext]_vars

\* =============================================================== claims ==
SkipOrCancel == {"skip", "cancel", "isCancel"}

\* The running command has not changed the tracked files of a, nor its
\* hash file.
Untouched(a) == files[a] = pre.files[a] /\ hashfile[a] = pre.hashfile[a]

\* All tracked files are on disk and the hash file records each of them.
FullyPulled(a) ==
    /\ \A f \in Tracked : files[a][f] # NoFile
    /\ hashfile[a].exists /\ hashfile[a].parsable
    /\ hashfile[a].map = CurrentHashes(files[a])

\* C1: in a sync run, an artifact that differed from its baseline when it
\* was visited (a tracked file edited or absent, template.html included) is
\* never written to, no decision is asked for, and the run counts it as
\* `modified`.
C1_DriftedArtifactUntouched ==
    obs.kind = "sync" =>
        \A a \in obs.drifted :
            /\ Untouched(a)
            /\ ~obs.asked
            /\ (pc = "s_done" => obs.outcome[a] = "modified")

\* C2: a pull that ended with an error after a remote fetch failed has left
\* every tracked file and the hash file of the artifact as they were.
C2_FetchFailureLeavesArtifactUntouched ==
    (obs.kind = "pull" /\ pc = "p_err" /\ obs.fetchFailed) => Untouched(art)

\* C3: a pull that ended with an error, whichever step failed, has
\* overwritten no tracked file of the artifact.
C3_ErrorMeansNoOverwrite ==
    (obs.kind = "pull" /\ pc = "p_err") => files[art] = pre.files[art]

\* C4: after a conflict answered with skip or cancel the pull has ended,
\* the tracked files and the hash file are unchanged and no snapshot exists
\* that was not there before.
C4_SkipCancelChangesNothing ==
    (obs.kind = "pull" /\ obs.decision \in SkipOrCancel) =>
        /\ pc \in {"p_skipped", "p_cancelled"}
        /\ obs.conflict
        /\ Untouched(art)
        /\ backups[art] = pre.backups[art]
        /\ obs.snapshots = 0

C4_Witness ==
    /\ obs.kind = "pull" /\ obs.decision = "skip" /\ pc = "p_skipped"
    /\ obs.conflict
    /\ files[art]["template.html"] = "edited"

\* C5: a sync run that got as far as its loop always ends with a summary
\* in which every artifact of the collection has been counted; an error on
\* one artifact never ends the run.
C5_ErrorNeverAbortsBatch ==
    (obs.kind = "sync" /\ pc \in {"s_done", "s_abort"}) =>
        /\ pc = "s_done"
        /\ \A i \in 1..Len(templates) : obs.outcome[templates[i]] # "none"

\* C6: a hash file is written only by the stamp step of a pull, after both
\* fetches and the writes of all tracked files of that artifact succeeded in
\* the same command; never after skip or cancel, never in a dry run, and
\* never by push.
C6_StampFollowsFetchAndWrites ==
    /\ \A a \in obs.stamped :
          /\ a \in obs.gotTemplate
          /\ a \in obs.gotCag
          /\ \A f \in Tracked : <<a, f>> \in obs.wrote
    /\ \A a \in Artifacts : hashfile[a] # pre.hashfile[a] => a \in obs.stamped
    /\ obs.decision \in SkipOrCancel => obs.stamped = {}
    /\ (obs.kind = "sync" /\ dry) => obs.stamped = {}
    /\ obs.kind = "push" => obs.stamped = {} /\ hashfile = pre.hashfile

C6_Witness ==
    /\ obs.kind = "pull" /\ pc = "p_save_config"
    /\ art \in obs.stamped
    /\ hashfile[art] # pre.hashfile[art]

\* C7: every entry of every stored hash map is the fingerprint of a content
\* that the tracked file has actually held, also after failures and kills.
C7_MapRecordsWrittenContent ==
    \A a \in Artifacts :
        \A f \in DOMAIN loadPullHashes(hashfile[a]) :
            \E c \in everHeld[a][f] : loadPullHashes(hashfile[a])[f] = Hash(c)

C7_Witness ==
    /\ faults > 0 /\ runs > 1
    /\ pc = "s_done"
    /\ \E a \in Artifacts : a \in obs.stamped /\ DOMAIN loadPullHashes(hashfile[a]) = Tracked

\* C8: a sync run that is not a dry run and in which nothing fails pulls
\* again, and completely, every artifact that an earlier run left
\* half-pulled (no user edit since).
C8_HalfPulledIsResumed ==
    (obs.kind = "sync" /\ pc = "s_done" /\ ~dry /\ obs.clean) =>
        \A a \in obs.resumed : obs.outcome[a] = "pulled" /\ FullyPulled(a)

\* What a second sync run may not do.
SecondRunIsQuiet ==
    /\ obs.wrote = {}
    /\ obs.stamped = {}
    /\ ~obs.fetchIssued
    /\ \A a \in Artifacts : Untouched(a)
    /\ (pc = "s_done" => summary.pulled = 0 /\ summary.failed = 0)

\* C9 as stated: a sync run started right after a run that counted no
\* failure, nothing having changed in between, writes and fetches nothing
\* and reports pulled = 0, failed = 0.
C9_AsStated ==
    (obs.kind = "sync" /\ obs.afterClean) => SecondRunIsQuiet

\* C9 amended: the same, when the earlier run was not a dry run.
C9_IdempotentAfterRealRun ==
    (obs.kind = "sync" /\ obs.afterClean /\ ~obs.afterDry) => SecondRunIsQuiet

C9_Witness ==
    /\ obs.kind = "sync" /\ obs.afterClean /\ ~obs.afterDry
    /\ pc = "s_done"
    /\ summary.skipped > 0
    /\ \E a \in Artifacts : FullyPulled(a)

\* C10: with a hash file that is absent, unparsable or an empty map, both
\* detectors report no change, whatever the tracked files hold and whichever
\* of them cannot be read.
C10_NoBaselineNoChange ==
    \A a \in Artifacts :
        (~hashfile[a].exists \/ ~hashfile[a].parsable \/ DOMAIN hashfile[a].map = {}) =>
            \A bad \in SUBSET Tracked :
                /\ detectLocalChanges(hashfile[a], files[a], bad)
                      = [threw |-> FALSE, changes |-> <<>>]
                /\ hasLocalChanges(hashfile[a], files[a], bad)
                      = [threw |-> FALSE, result |-> FALSE]

C10_Witness ==
    /\ obs.kind = "pull" /\ ~force /\ pc = "p_write_html"
    /\ ~obs.conflict /\ obs.wrote = {}
    /\ ~hashfile[art].exists
    /\ files[art]["template.html"] # NoFile
    /\ files[art]["config.json"] = NoFile

\* C11: right after a pull (by the pull command or by a sync run) has
\* written the tracked files and stamped the hash file, and as long as
\* nothing is touched outside the tool, both detectors report no change for
\* the artifact.
C11_DetectAfterStampIsQuiet ==
    \A a \in obs.fresh :
        /\ detectLocalChanges(hashfile[a], files[a], {})
              = [threw |-> FALSE, changes |-> <<>>]
        /\ hasLocalChanges(hashfile[a], files[a], {})
              = [threw |-> FALSE, result |-> FALSE]

C11_Witness ==
    /\ obs.kind = "pull" /\ pc = "p_ok"
    /\ obs.decision = "overwrite"
    /\ art \in obs.fresh
    /\ DOMAIN loadPullHashes(hashfile[art]) = Tracked
    /\ hashfile[art] # pre.hashfile[art]

C13_DryRunWritesNothing ==
    (obs.kind = "sync" /\ dry) =>
        /\ ~obs.fetchIssued
        /\ obs.wrote = {} /\ obs.stamped = {}
        /\ files = pre.files
        /\ hashfile = pre.hashfile
        /\ backups = pre.backups
        /\ config = pre.config
        /\ pc \notin SyncPullSteps

C13_Witness ==
    /\ obs.kind = "sync" /\ dry /\ pc = "s_done"
    /\ summary.pulled > 0
    /\ \E a \in Artifacts : obs.outcome[a] = "pulled" /\ files[a]["template.html"] = NoFile

\* An artifact has a local copy: it was pulled before (a baseline is
\* stored) or its template.html is on disk.
HasLocalCopy(fs, hs, a) ==
    \/ DOMAIN loadPullHashes(hs[a]) # {}
    \/ templateExistsLocally(fs[a])

\* C14: a sync run that is not a dry run and returned its summary has
\* counted each artifact by the rule: no local copy -> pulled when every
\* fetch and write succeeded, failed otherwise; local copy with a tracked
\* file modified or deleted since the baseline -> modified; local copy
\* with every tracked file unchanged -> skipped.
C14_CountingRule ==
    (obs.kind = "sync" /\ ~dry /\ pc = "s_done" /\ ~obs.edited) =>
        \A i \in 1..Len(templates) :
            LET a == templates[i] IN
            IF ~HasLocalCopy(pre.files, pre.hashfile, a)
            THEN /\ obs.outcome[a] \in {"pulled", "failed"}
                 /\ obs.outcome[a] = "pulled" <=>
                       /\ a \in obs.gotTemplate /\ a \in obs.gotCag
                       /\ \A f \in Tracked : <<a, f>> \in obs.wrote
                       /\ a \in obs.stamped
                       /\ halfPulled \cap {a} = {}
            ELSE IF Drifted(pre.hashfile[a], pre.files[a])
            THEN obs.outcome[a] = "modified"
            ELSE obs.outcome[a] = "skipped"

\* The classification the detector is to give tracked file f against the
\* baseline map `saved` (non-empty) and the directory content `dir`.
Classify(saved, dir, f) ==
    IF f \notin DOMAIN saved THEN "unchanged"
    ELSE IF computeFileHash(dir[f]) = saved[f] THEN "unchanged"
    ELSE IF dir[f] = NoFile THEN "deleted"
    ELSE "modified"

\* The entry of the report for a file classified `deleted` or `modified`:
\* pullCommand prints "file deleted locally" for linesChanged = 0.
ReportedAs(change) == IF change.linesChanged = 0 THEN "deleted" ELSE "modified"

\* The tracked files that are not `unchanged`, in declared order.
RECURSIVE ChangedInOrder(_, _, _)
ChangedInOrder(i, saved, dir) ==
    IF i > Len(TRACKED_FILES) THEN <<>>
    ELSE IF Classify(saved, dir, TRACKED_FILES[i]) = "unchanged"
         THEN ChangedInOrder(i + 1, saved, dir)
         ELSE <<TRACKED_FILES[i]>> \o ChangedInOrder(i + 1, saved, dir)

C16_UnreadableFileIsModified ==
    \A a \in Artifacts : \A f \in DOMAIN loadPullHashes(hashfile[a]) :
        files[a][f] # NoFile =>
            LET report == detectLocalChanges(hashfile[a], files[a], {f})
                others == ChangedInOrder(1, loadPullHashes(hashfile[a]), files[a])
            IN  /\ ~report.threw
                /\ \E i \in 1..Len(report.changes) :
                      /\ report.changes[i].file = f
                      /\ ReportedAs(report.changes[i]) = "modified"
                /\ \A j \in 1..Len(others) :
                      \E i \in 1..Len(report.changes) : report.changes[i].file = others[j]
                /\ hasLocalChanges(hashfile[a], files[a], {f})
                      = [threw |-> FALSE, result |-> TRUE]

\* The hash file of the artifact existed but did not parse when the running
\* command started.
StoreCorrupt(a) == a \in obs.corrupt

\* C17: loadPullHashes returns the empty map for a missing and for an
\* unparsable hash file, and a pull on an artifact whose hash file does not
\* parse goes on as a first pull: detection does not fail, no conflict is
\* reported, no decision is asked for, no snapshot is made, and the write
\* step follows.
C17_CorruptStoreIsFirstPull ==
    /\ \A a \in Artifacts :
          (~hashfile[a].exists \/ ~hashfile[a].parsable) =>
              loadPullHashes(hashfile[a]) = EmptyMap
    /\ (obs.kind = "pull" /\ StoreCorrupt(art)) =>
          /\ ~obs.conflict /\ ~obs.asked /\ obs.decision = "none"
          /\ obs.snapshots = 0
          /\ pc \notin {"p_await", "p_backup", "p_skipped", "p_cancelled"}
          /\ (pc = "p_ok" => \A f \in Tracked : <<art, f>> \in obs.wrote)
    /\ (obs.kind = "pull" /\ pc = "p_detect" /\ StoreCorrupt(art)) =>
          \A bad \in BadSets :
              detectLocalChanges(hashfile[art], files[art], bad)
                  = [threw |-> FALSE, changes |-> <<>>]

C17_Witness ==
    /\ obs.kind = "pull" /\ ~force /\ pc = "p_ok"
    /\ StoreCorrupt(art)
    /\ DOMAIN pre.hashfile[art].map = Tracked
    /\ \A f \in Tracked : <<art, f>> \in obs.wrote
    /\ hashfile[art].parsable

\* C18: a pull (without --force) or sync run that meets a hash file which
\* exists but does not parse has emitted a warning by the time it overwrites a tracked file of
\* that artifact, and by the time it ends after having consulted the file.
C18_CorruptStoreIsReported ==
    /\ ((obs.kind = "sync" \/ (obs.kind = "pull" /\ ~force))
          /\ \E a \in Artifacts : StoreCorrupt(a) /\ \E f \in Tracked : <<a, f>> \in obs.wrote)
       => obs.warned # {}
    /\ (obs.kind = "sync" /\ pc = "s_done"
          /\ \E a \in Artifacts : StoreCorrupt(a) /\ obs.outcome[a] = "skipped")
       => obs.warned # {}

\* What detectLocalChanges reports for the artifact of the running pull
\* when its files can be read.
Report == detectLocalChanges(hashfile[art], files[art], {}).changes

\* C19: the step after conflict detection is the prompt exactly when
\* --force is not set and the detector reports at least one modified or
\* deleted file; otherwise it is the write step.  The prompt is reached
\* from nowhere else, and a pull that has not asked has taken no decision
\* and made no snapshot.
C19_AsksIffConflict ==
    /\ [][(pc = "p_detect" /\ pc' \in {"p_await", "p_write_html"}) =>
             (pc' = "p_await" <=> (~force /\ Len(Report) > 0))]_vars
    /\ [][(pc = "p_detect" /\ pc' # pc /\ (force \/ hashfile[art] = NoHashFile)) =>
             pc' \in {"p_write_html", "killed"}]_vars
    /\ [][(pc' = "p_await" /\ pc # "p_await") => pc = "p_detect"]_vars
    /\ [](obs.kind = "pull" =>
             /\ (pc = "p_await" \/ obs.decision # "none") => obs.asked
             /\ ~obs.asked =>
                   /\ obs.snapshots = 0
                   /\ backups[art] = pre.backups[art]
                   /\ pc \notin {"p_backup", "p_skipped", "p_cancelled"}
             /\ force => ~obs.asked)

C19_Witness ==
    /\ obs.kind = "pull" /\ force /\ pc = "p_write_html"
    /\ Len(Report) > 0
    /\ ~obs.asked
    /\ obs.wrote = {}

C22_StampIsExactlyTheExistingFiles ==
    \A a \in obs.fresh :
        /\ hashfile[a].exists /\ hashfile[a].parsable
        /\ DOMAIN hashfile[a].map = {f \in Tracked : files[a][f] # NoFile}
        /\ \A f \in DOMAIN hashfile[a].map : hashfile[a].map[f] = Hash(files[a][f])

C22_Witness ==
    /\ obs.kind = "pull" /\ pc = "p_save_config"
    /\ art \in obs.fresh
    /\ DOMAIN pre.hashfile[art].map = Tracked
    /\ files[art]["styles.css"] = NoFile
    /\ DOMAIN hashfile[art].map = {"template.html", "config.json"}

\* C30: a push run with --yes displays no diff and asks for no
\* confirmation: after reading the local files it publishes them.
C30_YesSkipsDiffAndConfirmation ==
    (obs.kind = "push" /\ yes) =>
        /\ ~obs.diffShown
        /\ ~obs.asked
        /\ pc \notin {"u_confirm", "u_cancelled", "u_nothing"}

\* ------------------------------------------------------------------------
\* The lines obtained by walking oldLines, dropping the lines the remove
\* operations name (by old line number) and putting the text of each add
\* operation at the new line number it names.
Kept(oldLines, changes) ==
    LET removed == {changes[k].lineNum : k \in {n \in 1..Len(changes) : changes[n].type = "remove"}}
        F[i \in 0..Len(oldLines)] ==
            IF i = 0 THEN <<>>
            ELSE IF i \in removed THEN F[i - 1] ELSE Append(F[i - 1], oldLines[i])
    IN  F[Len(oldLines)]

RECURSIVE Place(_, _, _)
Place(p, kept, adds) ==
    IF \E k \in adds : k.lineNum = p
    THEN <<(CHOOSE k \in adds : k.lineNum = p).text>>
             \o Place(p + 1, kept, {k \in adds : k.lineNum # p})
    ELSE IF kept # <<>> THEN <<Head(kept)>> \o Place(p + 1, Tail(kept), adds)
    ELSE IF adds = {} THEN <<>>
    ELSE <<"<gap>">>

ApplyChanges(oldLines, changes) ==
    Place(1, Kept(oldLines, changes),
          {changes[k] : k \in {n \in 1..Len(changes) : changes[n].type = "add"}})

HasDuplicateLine(lines) == \E i, j \in 1..Len(lines) : i # j /\ lines[i] = lines[j]

\* C25: for all texts A and B, also with duplicate lines, applying the
\* operations of diff(A, B) to A's lines (dropping the removed lines, inserting
\* the added lines at their positions) gives exactly B's lines.
C25_DiffRoundTrip ==
    diff.pc \in {"format", "returned"} =>
        ApplyChanges(diff.oldLines, diff.changes) = diff.newLines

C25_Witness ==
    /\ diff.pc = "returned"
    /\ HasDuplicateLine(diff.oldLines) /\ HasDuplicateLine(diff.newLines)
    /\ diff.result.additions > 0 /\ diff.result.deletions > 0
    /\ ApplyChanges(diff.oldLines, diff.changes) = diff.newLines

\* C26: diff(T, T) reports no changes, zero additions and zero deletions, and
\* the LCS table is never built for it.
C26_IdenticalTextsCostNothing ==
    (diff.pc # "none" /\ diff.oldLines = diff.newLines) =>
        /\ diff.lcs = NoTable
        /\ diff.pc \in {"compare", "returned"}
        /\ diff.pc = "returned" =>
              /\ ~diff.result.hasChanges
              /\ diff.result.additions = 0
              /\ diff.result.deletions = 0

C26_Witness ==
    /\ diff.pc = "returned"
    /\ diff.oldLines = diff.newLines
    /\ Len(diff.oldLines) = MaxLines
    /\ diff.lcs = NoTable
    /\ ~diff.result.hasChanges

\* C27: diff(T, T + "\n" + X) has exactly one addition, whose text is X, and
\* no deletion, also when X is one of the lines of T.
C27_AppendedLineIsOneAddition ==
    (/\ diff.pc = "returned"
     /\ Len(diff.newLines) = Len(diff.oldLines) + 1
     /\ SubSeq(diff.newLines, 1, Len(diff.oldLines)) = diff.oldLines) =>
        /\ diff.result.hasChanges
        /\ diff.result.additions = 1
        /\ diff.result.deletions = 0
        /\ Len(diff.changes) = 1
        /\ diff.changes[1].type = "add"
        /\ diff.changes[1].text = diff.newLines[Len(diff.newLines)]

C27_Witness ==
    /\ diff.pc = "returned"
    /\ Len(diff.oldLines) = 2 /\ Len(diff.newLines) = 3
    /\ SubSeq(diff.newLines, 1, 2) = diff.oldLines
    /\ diff.newLines[3] = diff.oldLines[2]
    /\ diff.oldLines[1] # diff.oldLines[2]
    /\ diff.result.additions = 1 /\ diff.result.deletions = 0

\* The new text is the old text with exactly line k replaced by a line that
\* occurs nowhere in the old text.
OneLineReplaced(oldLines, newLines, k) ==
    /\ Len(oldLines) = Len(newLines)
    /\ k \in 1..Len(oldLines)
    /\ \A i \in 1..Len(oldLines) : (i # k) => newLines[i] = oldLines[i]
    /\ \A i \in 1..Len(oldLines) : newLines[k] # oldLines[i]

CountOf(changes, type) == Cardinality({n \in 1..Len(changes) : changes[n].type = type})

\* C28: when one line is replaced by a line that occurs nowhere in the old
\* text, the diff has exactly one remove (the old line), exactly one add (the
\* new line) and one context operation for each of the other lines.
C28_ReplacedLineWithContext ==
    \A k \in 1..MaxLines :
        (diff.pc = "returned" /\ OneLineReplaced(diff.oldLines, diff.newLines, k)) =>
            /\ CountOf(diff.changes, "remove") = 1
            /\ CountOf(diff.changes, "add") = 1
            /\ \E n \in 1..Len(diff.changes) :
                  diff.changes[n].type = "remove" /\ diff.changes[n].text = diff.oldLines[k]
            /\ \E n \in 1..Len(diff.changes) :
                  diff.changes[n].type = "add" /\ diff.changes[n].text = diff.newLines[k]
            /\ CountOf(diff.changes, "context") = Len(diff.oldLines) - 1

\* The line count above which the size guard is to answer.
SizeGuardLines == 2

\* C29: for inputs with more lines than the size-guard threshold the LCS
\* table is not built.
C29_SizeGuardSkipsTheTable ==
    (/\ diff.pc # "none"
     /\ (Len(diff.oldLines) > SizeGuardLines \/ Len(diff.newLines) > SizeGuardLines)) =>
        diff.lcs = NoTable

\* C21: every backup creates a snapshot directory with a name that no
\* snapshot under the backup root has yet, and no step changes a file that a
\* snapshot already holds, also when two backups are taken at the same clock
\* reading.
C21_EveryBackupGetsANewSnapshot ==
    /\ [][\A p \in BackupProcs :
             (snap.proc[p].pc = "mkdir" /\ snap'.proc[p].pc = "copy") =>
                 snap.proc[p].backupDir \notin DOMAIN snap.root]_vars
    /\ [][\A n \in DOMAIN snap.root : \A f \in DOMAIN snap.root[n] :
             snap'.root[n][f] = snap.root[n][f]]_vars

\* The process is between its conflict detection and its re-stamp.
InFlight(p) ==
    par.proc[p].pc \in {"detect", "await", "w_html", "w_css", "w_config", "h_read", "h_write"}

Finished(p) == par.proc[p].pc \in {"done", "skipped"}

\* C23: two pulls of the same artifact are never both between detect and
\* re-stamp, and once all pulls of an artifact have finished (no user edit
\* happened) detect reports every tracked file of it unchanged.
C23_OneReconciliationPerArtifact ==
    /\ \A p, q \in ParProcs :
          (p # q /\ par.proc[p].art = par.proc[q].art) => ~(InFlight(p) /\ InFlight(q))
    /\ \A a \in Artifacts :
          (/\ edits = 0
           /\ \E p \in ParProcs : par.proc[p].art = a /\ par.proc[p].pc = "done"
           /\ \A p \in ParProcs : par.proc[p].art = a => Finished(p)) =>
              detectLocalChanges(hashfile[a], files[a], {}).changes = <<>>

\* C24: when the pulls are of different artifacts and all have completed,
\* the state is that of running them one after the other: each directory
\* holds what its pull fetched, each hash file records exactly those files,
\* and the project config lists every pulled template.
C24_DifferentArtifactsDoNotInterfere ==
    (/\ edits = 0
     /\ \A p, q \in ParProcs : p # q => par.proc[p].art # par.proc[q].art
     /\ \A p \in ParProcs : par.proc[p].pc = "done") =>
        \A p \in ParProcs :
            LET a == par.proc[p].art IN
            /\ files[a] = [f \in Tracked |-> RemoteContent(f, par.proc[p].tmpl)]
            /\ hashfile[a] = savePullHashes(CurrentHashes(files[a]))
            /\ \E i \in 1..Len(config) : config[i] = a

\* The two lines at (i, j) differ, both moves are possible and the cell above
\* equals the cell to the left.
AtTie ==
    /\ InLoop
    /\ diff.i > 0 /\ diff.j > 0
    /\ diff.oldLines[diff.i] # diff.newLines[diff.j]
    /\ diff.dp[diff.i - 1, diff.j] = diff.dp[diff.i, diff.j - 1]

PositionOf(changes, type) == CHOOSE n \in 1..Len(changes) : changes[n].type = type

\* C31: at a tie of the backtrack the step taken is the add (j decreases, i
\* stays), never the remove; and when one line was replaced, the remove of
\* the old line comes before the add of the new line in the returned list.
C31_TiesPreferAdd ==
    /\ [][(AtTie /\ diff' # diff) =>
             /\ diff'.i = diff.i /\ diff'.j = diff.j - 1
             /\ diff'.reversed[Len(diff'.reversed)].type = "add"]_vars
    /\ [](\A k \in 1..MaxLines :
             (diff.pc = "built" /\ OneLineReplaced(diff.oldLines, diff.newLines, k)) =>
                 PositionOf(diff.changes, "remove") < PositionOf(diff.changes, "add"))

C31_Witness ==
    /\ diff.pc = "built"
    /\ diff.oldLines = <<"line1", "line2", "line3">>
    /\ diff.newLines = <<"line1", "lineX", "line3">>
    /\ diff.changes = <<[type |-> "remove", text |-> "line2", lineNum |-> 2],
                        [type |-> "add", text |-> "lineX", lineNum |-> 2]>>

\* C34: the backtrack terminates. At every position with i > 0 or j > 0 one
\* branch of the loop body applies, every round decreases i + j, the loop
\* makes at most m + n rounds and ends at (0, 0), and it only looks at cells
\* of the table inside 0..m, 0..n.
C34_BacktrackTerminates ==
    /\ [](InLoop => branchOf(diff.oldLines, diff.newLines, diff.dp, diff.i, diff.j) # "none")
    /\ [][(diff.pc = "loop" /\ diff'.pc = "loop" /\ diff' # diff) =>
             /\ diff'.i + diff'.j < diff.i + diff.j
             /\ diff'.i >= 0 /\ diff'.j >= 0]_vars
    /\ [](diff.steps <= Len(diff.oldLines) + Len(diff.newLines))
    /\ [](diff.reads \subseteq (0..Len(diff.oldLines)) \X (0..Len(diff.newLines)))
    /\ [](diff.pc = "built" => diff.i = 0 /\ diff.j = 0)
    /\ <>(diff.pc = "built")

C34_Witness ==
    /\ diff.pc = "built"
    /\ Len(diff.oldLines) = MaxLines /\ Len(diff.newLines) = MaxLines
    /\ diff.steps = 2 * MaxLines
    /\ diff.i = 0 /\ diff.j = 0

\* The strictly increasing lists of k positions out of 1..n.
Increasing(k, n) ==
    {p \in [1..k -> 1..n] : \A s, t \in 1..k : s < t => p[s] < p[t]}

\* The two line arrays have a common subsequence of k lines.
HasCommonSubsequence(oldLines, newLines, k) ==
    \E p \in Increasing(k, Len(oldLines)), q \in Increasing(k, Len(newLines)) :
        \A t \in 1..k : oldLines[p[t]] = newLines[q[t]]

\* The length of a longest common subsequence, by trying every choice of
\* positions.
LongestCommon(oldLines, newLines) ==
    CHOOSE k \in 0..MaxLines :
        /\ HasCommonSubsequence(oldLines, newLines, k)
        /\ \A l \in (k + 1)..MaxLines : ~HasCommonSubsequence(oldLines, newLines, l)

\* C33: for two different texts of m and n lines the diff has m - L deletions
\* and n - L additions, L being the length of a longest common subsequence
\* of the two line arrays; so additions - deletions = n - m.
C33_DiffIsMinimal ==
    (diff.pc = "returned" /\ diff.oldText # diff.newText) =>
        LET m == Len(diff.oldLines)
            n == Len(diff.newLines)
            L == LongestCommon(diff.oldLines, diff.newLines)
        IN  /\ diff.result.deletions = m - L
            /\ diff.result.additions = n - L
            /\ diff.result.additions - diff.result.deletions = n - m
            /\ diff.lcs[m, n] = L

C33_Witness ==
    /\ diff.pc = "returned"
    /\ diff.oldLines = <<"line1", "line2", "line1">>
    /\ diff.newLines = <<"line2", "line1", "line3">>
    /\ diff.result.deletions = 1
    /\ diff.result.additions = 1

\* C32: computeFileHash returns '' exactly when the file did not exist at its
\* existence check; an existing, readable file (an empty one too) yields its
\* digest, which is not ''; a file that existed at the check but cannot be
\* read, or is gone at the read, yields an error and neither '' nor a digest.
C32_AbsentOnlyForMissingFile ==
    \A n \in 1..Len(fh.calls) :
        LET call == fh.calls[n] IN
        /\ (call.result = "") <=> ~call.existed
        /\ (call.existed /\ call.readOk) =>
              call.result = Hash(call.content) /\ call.result \notin {"", FileError}
        /\ (call.existed /\ ~call.readOk) => call.result = FileError

C32_Witness ==
    /\ fh.pc = "threw"
    /\ Len(fh.calls) = 2
    /\ fh.calls[1] = [file |-> "template.html", existed |-> TRUE, readOk |-> TRUE,
                      content |-> "", result |-> Hash("")]
    /\ fh.calls[2].existed /\ fh.calls[2].content = NoFile
    /\ fh.calls[2].result = FileError

SummaryTotal == summary.pulled + summary.skipped + summary.modified + summary.failed

\* C35: when syncCommand returns a summary every template of the list was
\* processed once and counted under exactly one counter: while the loop runs
\* the counters add up to the number of templates already processed, and at
\* the summary pulled + skipped + modified + failed is the length of the list.
C35_SummaryCountsEveryTemplateOnce ==
    /\ pc \in {"s_next", "s_done"} \cup SyncPullSteps => SummaryTotal = idx - 1
    /\ pc \in SyncPullSteps => idx <= Len(templates)
    /\ pc = "s_done" =>
          /\ idx = Len(templates) + 1
          /\ SummaryTotal = Len(templates)
          /\ \A i \in 1..Len(templates) : obs.outcome[templates[i]] # "none"

C35_Witness ==
    /\ pc = "s_done"
    /\ Len(templates) = NumArtifacts
    /\ summary.failed = 1
    /\ summary.pulled = 1

\* C36: the two change detectors agree. For every stored map and every
\* content of the tracked files, whenever pull's detectLocalChanges returns a
\* list, sync's hasLocalChanges returns too, and it returns true exactly when
\* that list is not empty.
C36_DetectorsAgree ==
    \A a \in Artifacts : \A bad \in SUBSET Tracked :
        LET d == detectLocalChanges(hashfile[a], files[a], bad)
            s == hasLocalChanges(hashfile[a], files[a], bad)
        IN  ~d.threw => (~s.threw /\ (s.result <=> Len(d.changes) > 0))

C36_Witness ==
    /\ obs.kind = "pull" /\ pc = "p_await"
    /\ files[art]["template.html"] = NoFile
    /\ Len(detectLocalChanges(hashfile[art], files[art], {}).changes) > 0
    /\ hasLocalChanges(hashfile[art], files[art], {}).result

\* C37: detect reports a change only after an edit made outside the tool.
\* After any sequence of tool operations (pull, sync, push, schema refresh)
\* none of which failed or was killed, and without an edit outside the
\* tool, the hash file of every artifact matches its tracked files, and a
\* pull asks for a decision only when an outside edit happened.
C37_DetectOnlyAfterOutsideEdit ==
    /\ (pc \in Ended /\ faults = 0 /\ edits = 0) =>
          \A a \in Artifacts :
              Len(detectLocalChanges(hashfile[a], files[a], {}).changes) = 0
    /\ (obs.kind = "pull" /\ obs.conflict /\ faults = 0) => edits > 0

\* C38: push publishes only after the caller confirmed or --yes was given.
\* The Remote Store changes during a push only at the publish step, and
\* that step is reached only with --yes or after the answer "confirm";
\* after a declined or cancelled confirmation the push has ended without
\* publishing; and during and after every push the tracked files and the
\* hash file are what they were when the push started.
C38_PublishOnlyAfterConfirm ==
    /\ [](obs.kind = "push" =>
            /\ files = pre.files
            /\ hashfile = pre.hashfile
            /\ (pc = "u_publish" \/ obs.published) => (yes \/ obs.decision = "confirm")
            /\ obs.decision \in {"decline", "isCancel"} =>
                  (pc = "u_cancelled" /\ ~obs.published))
    /\ [][(obs.kind = "push" /\ pc \notin Ended /\ remote' # remote) =>
             (pc = "u_publish" /\ (yes \/ obs.decision = "confirm"))]_vars

C38_Witness ==
    /\ obs.kind = "push" /\ pc = "u_ok"
    /\ ~yes /\ obs.asked /\ obs.decision = "confirm" /\ obs.published
    /\ remote[art].html = files[art]["template.html"]
    /\ files[art]["template.html"] \in UserContents

\* C39: when push fetched the server version and the markup and the style
\* both equal the server's, the step after the fetch is the end "Nothing
\* to push": no confirmation is asked and nothing is published, with and
\* without --yes.  When the fetch of the server version fails, the push
\* does not end in its error handler: its next position is the
\* confirmation (the publish step under --yes), no diff is shown, and from
\* there it publishes as a push with a diff does.
C39_NothingToPushAndFetchFailure ==
    /\ [][(pc = "u_fetch" /\ pc' # "killed") =>
             IF obs'.fetchFailed
             THEN /\ pc' = (IF yes THEN "u_publish" ELSE "u_confirm")
                  /\ ~obs'.diffShown /\ obs'.clean
             ELSE (remote[art].html = local.html /\ remote[art].css = local.css) =>
                     (pc' = "u_nothing" /\ ~obs'.asked /\ ~obs'.published)]_vars
    /\ [][(obs.kind = "push" /\ obs.fetchFailed /\ pc' = "u_err") => pc = "u_publish"]_vars
    /\ [](obs.kind = "push" /\ pc = "u_nothing" =>
             (~obs.asked /\ ~obs.published /\ ~obs.diffShown /\ ~obs.fetchFailed))
    /\ [](obs.kind = "push" /\ obs.fetchFailed =>
             (~obs.diffShown /\ pc \in {"u_confirm", "u_publish", "u_cancelled", "u_ok",
                                        "u_err", "killed"}))

C39_Witness ==
    /\ obs.kind = "push" /\ pc = "u_ok"
    /\ obs.fetchFailed /\ ~obs.diffShown /\ obs.published
    /\ ~yes /\ obs.asked

====
